---------------------------- MODULE Spec2Model ----------------------------
(***************************************************************************)
(* A model of the nil dynamic binary translator (ARMv5 guest, x86-64       *)
(* host): the opcode decoder and its lookup table, the basic-block builder *)
(* used by the lifter, dead-variable pruning, live intervals, the          *)
(* linear-scan register allocator, and the main loop with its translation  *)
(* cache.                                                                  *)
(*                                                                         *)
(* A 32-bit word is a pair <<hi, lo>> of 16-bit halves.                    *)
(***************************************************************************)
EXTENDS Integers, Sequences, FiniteSets, TLC

VARIABLES
    opcd,        \* decoder: the opcode handed to ArmLut::lookup
    fn,          \* decoder: the handler the lookup returned
    dstate,      \* decoder: "fetch" before the lookup, "dispatched" after
    bb,          \* pipeline: the BasicBlock being translated
    phase,       \* pipeline: where the translation of the block stands
    jit,         \* main loop: the Jit (guest state, memory, translation cache)
    run,         \* main loop: the locals of Jit::run
    lifted       \* main loop: per guest PC, the calls of lift and recompile

decvars == <<opcd, fn, dstate>>
blkvars == <<bb, phase>>
jitvars == <<jit, run, lifted>>
vars == <<opcd, fn, dstate, bb, phase, jit, run, lifted>>

(***************************************************************************)
(* 32-bit words                                                            *)
(***************************************************************************)
RECURSIVE BitAnd16(_, _)
BitAnd16(a, b) ==
    IF a = 0 \/ b = 0 THEN 0
    ELSE (a % 2) * (b % 2) + 2 * BitAnd16(a \div 2, b \div 2)

RECURSIVE BitOr16(_, _)
BitOr16(a, b) ==
    IF a = 0 THEN b
    ELSE IF b = 0 THEN a
    ELSE (IF (a % 2) + (b % 2) > 0 THEN 1 ELSE 0)
         + 2 * BitOr16(a \div 2, b \div 2)

\* opcd & mask on u32
And32(a, m) == <<BitAnd16(a[1], m[1]), BitAnd16(a[2], m[2])>>

(***************************************************************************)
(* lift/decode.rs: ArmInst::decode, an ordered cascade of mask/match       *)
(* tests; the first match wins, fallthrough is Undefined.                  *)
(***************************************************************************)
DecodeCascade ==
    <<
      [mask |-> <<\H0ff0, \H00f0>>,
       rows |-> {
           <<<<\H0140, \H0050>>, "Qdadd">>,
           <<<<\H0120, \H0050>>, "Qsub">>,
           <<<<\H0100, \H0050>>, "Qadd">>,
           <<<<\H0160, \H0050>>, "Qdsub">>,
           <<<<\H0120, \H0010>>, "Bx">>,
           <<<<\H0160, \H0010>>, "Clz">>,
           <<<<\H0120, \H0020>>, "Bxj">>,
           <<<<\H0120, \H0070>>, "Bkpt">>,
           <<<<\H0120, \H0030>>, "BlxReg">> } ],
      [mask |-> <<\H0fe0, \H00f0>>,
       rows |-> {
           <<<<\H00c0, \H0090>>, "Smull">>,
           <<<<\H00a0, \H0090>>, "Umlal">>,
           <<<<\H00e0, \H0090>>, "Smlal">>,
           <<<<\H0080, \H0090>>, "Umull">>,
           <<<<\H0000, \H0090>>, "Mul">>,
           <<<<\H0020, \H0090>>, "Mla">> } ],
      [mask |-> <<\H0fb0, \H00f0>>,
       rows |-> {
           <<<<\H0120, \H0000>>, "MsrReg">>,
           <<<<\H0100, \H0000>>, "Mrs">> } ],
      [mask |-> <<\H0ff0, \H00b0>>,
       rows |-> {
           <<<<\H0120, \H00a0>>, "Smulwb">>,
           <<<<\H0120, \H0080>>, "Smlawb">> } ],
      [mask |-> <<\H0ff0, \H0090>>,
       rows |-> {
           <<<<\H0140, \H0080>>, "Smlalbb">>,
           <<<<\H0130, \H0010>>, "TeqRegShiftReg">>,
           <<<<\H0170, \H0010>>, "CmnRegShiftReg">>,
           <<<<\H0110, \H0010>>, "TstRegShiftReg">>,
           <<<<\H0150, \H0010>>, "CmpRegShiftReg">>,
           <<<<\H0100, \H0080>>, "Smlabb">>,
           <<<<\H0160, \H0080>>, "Smulbb">> } ],
      [mask |-> <<\H0e50, \H00f0>>,
       rows |-> {
           <<<<\H0050, \H00d0>>, "LdrsbImm">>,
           <<<<\H0000, \H00f0>>, "StrdReg">>,
           <<<<\H0040, \H00b0>>, "StrhImm">>,
           <<<<\H0010, \H00d0>>, "LdrsbReg">>,
           <<<<\H0050, \H00f0>>, "LdrshImm">>,
           <<<<\H0010, \H00f0>>, "LdrshReg">>,
           <<<<\H0040, \H00f0>>, "StrdImm">>,
           <<<<\H0050, \H00b0>>, "LdrhImm">>,
           <<<<\H0000, \H00d0>>, "LdrdReg">>,
           <<<<\H0010, \H00b0>>, "LdrhReg">>,
           <<<<\H0040, \H00d0>>, "LdrdImm">>,
           <<<<\H0000, \H00b0>>, "StrhReg">> } ],
      [mask |-> <<\H0fe0, \H0090>>,
       rows |-> {
           <<<<\H0000, \H0010>>, "AndRegShiftReg">>,
           <<<<\H00a0, \H0010>>, "AdcRegShiftReg">>,
           <<<<\H01a0, \H0010>>, "MovRegShiftReg">>,
           <<<<\H0180, \H0010>>, "OrrRegShiftReg">>,
           <<<<\H0020, \H0010>>, "EorRegShiftReg">>,
           <<<<\H00e0, \H0010>>, "RscRegShiftReg">>,
           <<<<\H01e0, \H0010>>, "MvnRegShiftReg">>,
           <<<<\H00c0, \H0010>>, "SbcRegShiftReg">>,
           <<<<\H0080, \H0010>>, "AddRegShiftReg">>,
           <<<<\H01c0, \H0010>>, "BicRegShiftReg">>,
           <<<<\H0060, \H0010>>, "RsbRegShiftReg">>,
           <<<<\H0040, \H0010>>, "SubRegShiftReg">> } ],
      [mask |-> <<\H0ff0, \H0010>>,
       rows |-> {
           <<<<\H0150, \H0000>>, "CmpReg">>,
           <<<<\H0110, \H0000>>, "TstReg">>,
           <<<<\H0170, \H0000>>, "CmnReg">>,
           <<<<\H0130, \H0000>>, "TeqReg">> } ],
      [mask |-> <<\H0ff0, \H0000>>,
       rows |-> {
           <<<<\H0300, \H0000>>, "MovImmAlt">>,
           <<<<\H0370, \H0000>>, "CmnImm">>,
           <<<<\H0c40, \H0000>>, "Mcrr">>,
           <<<<\H0350, \H0000>>, "CmpImm">>,
           <<<<\H0310, \H0000>>, "TstImm">>,
           <<<<\H0c50, \H0000>>, "Mrrc">>,
           <<<<\H0330, \H0000>>, "TeqImm">> } ],
      [mask |-> <<\H0f70, \H0010>>,
       rows |-> {
           <<<<\H0670, \H0000>>, "LdrbtAlt">>,
           <<<<\H0660, \H0000>>, "StrbtAlt">>,
           <<<<\H0630, \H0000>>, "LdrtAlt">>,
           <<<<\H0620, \H0000>>, "StrtAlt">> } ],
      [mask |-> <<\H0fe0, \H0010>>,
       rows |-> {
           <<<<\H00c0, \H0000>>, "SbcReg">>,
           <<<<\H0180, \H0000>>, "OrrReg">>,
           <<<<\H01c0, \H0000>>, "BicReg">>,
           <<<<\H0080, \H0000>>, "AddReg">>,
           <<<<\H00e0, \H0000>>, "RscReg">>,
           <<<<\H0020, \H0000>>, "EorReg">>,
           <<<<\H01e0, \H0000>>, "MvnReg">>,
           <<<<\H00a0, \H0000>>, "AdcReg">>,
           <<<<\H0040, \H0000>>, "SubReg">>,
           <<<<\H01a0, \H0000>>, "MovReg">>,
           <<<<\H0000, \H0000>>, "AndReg">>,
           <<<<\H0060, \H0000>>, "RsbReg">> } ],
      [mask |-> <<\H0fe0, \H0000>>,
       rows |-> {
           <<<<\H03a0, \H0000>>, "MovImm">>,
           <<<<\H0280, \H0000>>, "AddImm">>,
           <<<<\H02a0, \H0000>>, "AdcImm">>,
           <<<<\H0260, \H0000>>, "RsbImm">>,
           <<<<\H0380, \H0000>>, "OrrImm">>,
           <<<<\H03c0, \H0000>>, "BicImm">>,
           <<<<\H0240, \H0000>>, "SubImm">>,
           <<<<\H03e0, \H0000>>, "MvnImm">>,
           <<<<\H0200, \H0000>>, "AndImm">>,
           <<<<\H02e0, \H0000>>, "RscImm">>,
           <<<<\H0220, \H0000>>, "EorImm">>,
           <<<<\H02c0, \H0000>>, "SbcImm">> } ],
      [mask |-> <<\H0f70, \H0000>>,
       rows |-> {
           <<<<\H0470, \H0000>>, "Ldrbt">>,
           <<<<\H0460, \H0000>>, "Strbt">>,
           <<<<\H0430, \H0000>>, "Ldrt">>,
           <<<<\H0420, \H0000>>, "Strt">> } ],
      [mask |-> <<\H0fd0, \H0000>>,
       rows |-> {
           <<<<\H0880, \H0000>>, "Stm">>,
           <<<<\H0800, \H0000>>, "Stmda">>,
           <<<<\H0810, \H0000>>, "Ldmda">>,
           <<<<\H0990, \H0000>>, "Ldmib">>,
           <<<<\H0910, \H0000>>, "Ldmdb">>,
           <<<<\H0890, \H0000>>, "Ldm">>,
           <<<<\H0900, \H0000>>, "Stmdb">>,
           <<<<\H0980, \H0000>>, "Stmib">> } ],
      [mask |-> <<\H0fb0, \H0000>>,
       rows |-> {
           <<<<\H0320, \H0000>>, "MsrImm">> } ],
      [mask |-> <<\H0e50, \H0010>>,
       rows |-> {
           <<<<\H0610, \H0000>>, "LdrReg">>,
           <<<<\H0640, \H0000>>, "StrbReg">>,
           <<<<\H0650, \H0000>>, "LdrbReg">>,
           <<<<\H0600, \H0000>>, "StrReg">> } ],
      [mask |-> <<\H0f10, \H0010>>,
       rows |-> {
           <<<<\H0e10, \H0010>>, "Mrc">>,
           <<<<\H0e00, \H0010>>, "Mcr">> } ],
      [mask |-> <<\H0e50, \H0000>>,
       rows |-> {
           <<<<\H0c00, \H0000>>, "Stc">>,
           <<<<\H0850, \H0000>>, "LdmRegUser">>,
           <<<<\H0c10, \H0000>>, "LdcImm">>,
           <<<<\H0400, \H0000>>, "StrImm">>,
           <<<<\H0440, \H0000>>, "StrbImm">>,
           <<<<\H0450, \H0000>>, "LdrbImm">>,
           <<<<\H0840, \H0000>>, "StmRegUser">>,
           <<<<\H0410, \H0000>>, "LdrImm">> } ],
      [mask |-> <<\H0f00, \H0000>>,
       rows |-> {
           <<<<\H0f00, \H0000>>, "Svc">>,
           <<<<\H0a00, \H0000>>, "B">>,
           <<<<\H0b00, \H0000>>, "BlImm">> } ]
    >>


RECURSIVE DecodeFrom(_, _)
DecodeFrom(op, g) ==
    IF g > Len(DecodeCascade) THEN "Undefined"
    ELSE LET v == And32(op, DecodeCascade[g].mask)
             hit == {r \in DecodeCascade[g].rows : r[1] = v}
         IN  IF hit # {} THEN (CHOOSE r \in hit : TRUE)[2]
             ELSE DecodeFrom(op, g + 1)

decode(op) == DecodeFrom(op, 1)

(***************************************************************************)
(* lift/dispatch.rs: ArmFn::from_inst                                      *)
(***************************************************************************)
from_inst(inst) ==
    CASE inst = "LdrImm" -> "ldr_imm"
      [] inst = "SubImm" -> "sub_imm"
      [] inst = "StrImm" -> "str_imm"
      [] inst = "Stmdb"  -> "stmdb"
      [] inst = "B"      -> "b"
      [] inst = "BlImm"  -> "bl_imm"
      [] inst = "MovImm" -> "mov_imm"
      [] inst = "MovReg" -> "mov_reg"
      [] inst = "CmpImm" -> "cmp_imm"
      [] OTHER           -> "arm_unimpl_instr"

(***************************************************************************)
(* lift/lut.rs: ArmLut                                                     *)
(***************************************************************************)
LUT_SIZE == 4096

\* (((idx & 0x0ff0) << 16) | ((idx & 0x000f) << 4)) as u32
idx_to_opcd(idx) == <<BitAnd16(idx, \H0ff0), BitAnd16(idx, \H000f) * 16>>

\* a plausible slip: the low nibble of the index taken from bits 0..3
opcd_to_idx_LowNibble(op) ==
    BitOr16(BitAnd16(op[1], \H0ff0), BitAnd16(op[2], \H000f))

\* (((opcd >> 16) & 0x0ff0) | ((opcd >> 4) & 0x000f)) as usize
opcd_to_idx(op) ==
    BitOr16(BitAnd16(op[1], \H0ff0), BitAnd16(op[2] \div 16, \H000f))

\* ArmLut::create_lut, evaluated once (a const table in the source)
ArmLutData == [i \in 0 .. (LUT_SIZE - 1) |-> from_inst(decode(idx_to_opcd(i)))]

lookup(op) == ArmLutData[opcd_to_idx(op)]

(***************************************************************************)
(* The decoder specification: an opcode is drawn, the LUT is consulted.    *)
(* The opcode is a canonical index (all 4096 of them) overlaid with bits   *)
(* outside the index: the condition field, bits 16..19, bits 8..15 and     *)
(* bits 0..3.                                                              *)
(***************************************************************************)
\* <<cond, bits 16..19, bits 8..15, bits 0..3>>: every bit outside the index is
\* clear in one overlay and set in another
Overlays ==
    { <<0, 0, 0, 0>>, <<15, 15, 255, 15>>, <<14, 0, 0, 0>>,
      <<10, 5, 170, 10>>, <<5, 10, 85, 5>> }

OpcodeSample ==
    { <<o[1] * 4096 + BitAnd16(i, \H0ff0) + o[2],
        o[3] * 256 + BitAnd16(i, \H000f) * 16 + o[4]>> :
        <<i, o>> \in (0 .. (LUT_SIZE - 1)) \X Overlays }

\* the decoder's variables while another specification runs, and the
\* pipeline's variables while the decoder specification runs
DecoderOff == opcd = <<0, 0>> /\ fn = "none" /\ dstate = "off"
PipelineOff == bb = <<>> /\ phase = "off"
JitOff == jit = <<>> /\ run = <<>> /\ lifted = <<>>

DecInit ==
    /\ opcd \in OpcodeSample
    /\ fn = "none"
    /\ dstate = "fetch"
    /\ PipelineOff
    /\ JitOff

\* LUT.arm.lookup(opcd) in BasicBlock::lift
Lookup ==
    /\ dstate = "fetch"
    /\ fn' = lookup(opcd)
    /\ dstate' = "dispatched"
    /\ UNCHANGED <<opcd, blkvars, jitvars>>

DecNext == Lookup

SpecLut == DecInit /\ [][DecNext]_vars

\* C1: for every opcode the handler stored in the LUT at the compressed index
\* is the handler from_inst assigns to decode(op), and decode(op) equals
\* decode(op & 0x0ff000f0).
LutAgreesWithDecode ==
    dstate = "dispatched" =>
        /\ fn = from_inst(decode(opcd))
        /\ decode(opcd) = decode(And32(opcd, <<\H0ff0, \H00f0>>))

\* an opcode with bits set outside the index has been looked up and found
\* an implemented handler
LutWitness ==
    /\ dstate = "dispatched"
    /\ And32(opcd, <<\H0ff0, \H00f0>>) # opcd
    /\ fn = "ldr_imm"


(***************************************************************************)
(* ir/mod.rs: variables, constants, operations, instructions               *)
(***************************************************************************)
Zero32 == <<0, 0>>

RECURSIVE Pow2(_)
Pow2(n) == IF n = 0 THEN 1 ELSE 2 * Pow2(n - 1)

\* Var { id, width, kind }: kind Local, Constant(val) or GuestReg(reg)
new_local(id, width) ==
    [id |-> id, width |-> width, kind |-> "Local", val |-> Zero32, reg |-> 0]
new_constant(id, width, val) ==
    [id |-> id, width |-> width, kind |-> "Constant", val |-> val, reg |-> 0]
new_guestreg(id, reg) ==
    [id |-> id, width |-> 32, kind |-> "GuestReg", val |-> Zero32, reg |-> reg]

\* Option<Var>::None
NoVar == [id |-> -1, width |-> 0, kind |-> "None", val |-> Zero32, reg |-> 0]

\* the derived Ord of VarKind: variants in declaration order, then the payload
KindRank(k) == CASE k = "Local" -> 0 [] k = "Constant" -> 1 [] k = "GuestReg" -> 2
                 [] OTHER -> 3

Less32(a, b) == a[1] < b[1] \/ (a[1] = b[1] /\ a[2] < b[2])

\* the derived Ord of Var: id, then width, then kind
VarLess(a, b) ==
    \/ a.id < b.id
    \/ a.id = b.id /\ a.width < b.width
    \/ a.id = b.id /\ a.width = b.width /\ KindRank(a.kind) < KindRank(b.kind)
    \/ a.id = b.id /\ a.width = b.width /\ a.kind = b.kind
         /\ (Less32(a.val, b.val) \/ (a.val = b.val /\ a.reg < b.reg))

\* value & ((1 << width) - 1), for a value below 2^32 and a width of at most 32
MaskTo(width, value) ==
    IF width >= 32 THEN value
    ELSE IF width >= 16 THEN <<value[1] % Pow2(width - 16), value[2]>>
    ELSE <<0, value[2] % Pow2(width)>>

\* Constant::new(width, value)
Constant_new(width, value) == [width |-> width, value |-> MaskTo(width, value)]

NoConst == [width |-> 0, value |-> Zero32]

\* Operation: the tag names the BindOp / MemoryOp / ArithOp variant
Op(tag, c, reg, flag, x, y) ==
    [tag |-> tag, c |-> c, reg |-> reg, flag |-> flag, x |-> x, y |-> y]

Inst(opcode, lh, lh_c, lh_v, rh) ==
    [guest_op |-> opcode, lh |-> lh, lh_c |-> lh_c, lh_v |-> lh_v, rh |-> rh]

\* Instruction::get_used_vars
get_used_vars(inst) ==
    LET t == inst.rh.tag IN
    CASE t \in {"WriteGuestReg", "WriteFlag"} -> <<inst.rh.x>>
      [] t = "Load32" -> <<inst.rh.x>>
      [] t = "Store32" -> <<inst.rh.x, inst.rh.y>>
      [] t \in {"Lsl32", "Add32", "Sub32", "And32", "Or32", "Shl32", "Shr32"} ->
            <<inst.rh.x, inst.rh.y>>
      [] t \in {"IsNegative", "IsZero"} -> <<inst.rh.x>>
      [] OTHER -> <<>>

\* Instruction constructors
I_constant(o, v, c)   == Inst(o, v, NoVar, NoVar, Op("Const", c, 0, "", NoVar, NoVar))
I_read_reg(o, v, reg) == Inst(o, v, NoVar, NoVar, Op("ReadGuestReg", NoConst, reg, "", NoVar, NoVar))
I_write_reg(o, reg, val) ==
    Inst(o, NoVar, NoVar, NoVar, Op("WriteGuestReg", NoConst, reg, "", val, NoVar))
I_read_flag(o, v, kind) == Inst(o, v, NoVar, NoVar, Op("ReadFlag", NoConst, 0, kind, NoVar, NoVar))
I_write_flag(o, kind, val) ==
    Inst(o, NoVar, NoVar, NoVar, Op("WriteFlag", NoConst, 0, kind, val, NoVar))
I_load32(o, v, addr)  == Inst(o, v, NoVar, NoVar, Op("Load32", NoConst, 0, "", addr, NoVar))
I_store32(o, addr, val) ==
    Inst(o, NoVar, NoVar, NoVar, Op("Store32", NoConst, 0, "", addr, val))
I_add32(o, dst, x, y) == Inst(o, dst, NoVar, NoVar, Op("Add32", NoConst, 0, "", x, y))
I_sub32(o, dst, x, y) == Inst(o, dst, NoVar, NoVar, Op("Sub32", NoConst, 0, "", x, y))
I_sub32f(o, dst, c, v, x, y) == Inst(o, dst, c, v, Op("Sub32", NoConst, 0, "", x, y))
I_lsl32f(o, dst, c, v, x, y) == Inst(o, dst, c, v, Op("Lsl32", NoConst, 0, "", x, y))
I_is_zero(o, dst, x)  == Inst(o, dst, NoVar, NoVar, Op("IsZero", NoConst, 0, "", x, NoVar))
I_is_negative(o, dst, x) ==
    Inst(o, dst, NoVar, NoVar, Op("IsNegative", NoConst, 0, "", x, NoVar))

(***************************************************************************)
(* block/mod.rs: LocalBindings, BlockLink, BasicBlock                      *)
(***************************************************************************)
\* LocalBindings::new
LocalBindings_new == [cur_varid |-> 0, var_map |-> {}, const_map |-> <<>>]

\* a plausible slip: a lookup that never finds the constant
get_constant_Miss(lb, c) == NoVar

\* LocalBindings::get_constant
get_constant(lb, c) == IF c \in DOMAIN lb.const_map THEN lb.const_map[c] ELSE NoVar

\* LocalBindings::remove_constant
remove_constant(lb, c) ==
    [lb EXCEPT !.const_map = [k \in (DOMAIN lb.const_map) \ {c} |-> lb.const_map[k]]]

\* a plausible slip: next_id hands out the id without advancing cur_varid
alloca_local_NoAdvance(lb, width) ==
    LET var == new_local(lb.cur_varid, width) IN
    [lb |-> [lb EXCEPT !.var_map = @ \cup {var}], var |-> var]

\* LocalBindings::alloca_local (with next_id): the new bindings and the variable
alloca_local(lb, width) ==
    LET var == new_local(lb.cur_varid, width) IN
    [lb |-> [lb EXCEPT !.cur_varid = @ + 1, !.var_map = @ \cup {var}], var |-> var]

\* LocalBindings::alloca_constant
alloca_constant(lb, c) ==
    LET var == new_constant(lb.cur_varid, c.width, c.value) IN
    [lb |-> [lb EXCEPT !.cur_varid = @ + 1,
                       !.var_map = @ \cup {var},
                       !.const_map = [k \in (DOMAIN @) \cup {c} |->
                                         IF k = c THEN var ELSE @[k]]],
     var |-> var]

\* LocalBindings::alloca_guestreg
alloca_guestreg(lb, reg) ==
    LET var == new_guestreg(lb.cur_varid, reg) IN
    [lb |-> [lb EXCEPT !.cur_varid = @ + 1, !.var_map = @ \cup {var}], var |-> var]

\* Option<BlockLink>
NoLink == [tag |-> "None", cond |-> 0, a |-> NoVar, b |-> NoVar]
Branch(target) == [tag |-> "Branch", cond |-> 0, a |-> target, b |-> NoVar]
BranchAndLink(target, new_lr) ==
    [tag |-> "BranchAndLink", cond |-> 0, a |-> target, b |-> new_lr]
BranchCond(cond, t, f) == [tag |-> "BranchCond", cond |-> cond, a |-> t, b |-> f]

\* BasicBlock::new.  fatal records that a panic ended the work on this block.
BasicBlock_new(pc) ==
    [base_pc |-> pc, data |-> <<>>, lb |-> LocalBindings_new, link |-> NoLink,
     intervals |-> <<>>, storage |-> <<>>, code |-> <<>>,
     guest_ops |-> <<>>, pc |-> pc, fatal |-> FALSE]

\* BasicBlock::last_opcd: guest_ops.last().unwrap()
last_opcd(b) == b.guest_ops[Len(b.guest_ops)]

\* a plausible slip: the instruction inserted at the head of the list
push_Front(b, inst) ==
    IF b.fatal THEN b
    ELSE IF b.link # NoLink THEN [b EXCEPT !.fatal = TRUE]
    ELSE [b EXCEPT !.data = <<inst>> \o @]

\* a plausible slip: push without its assertion
push_NoAssert(b, inst) ==
    IF b.fatal THEN b ELSE [b EXCEPT !.data = Append(@, inst)]

\* BasicBlock::push: assert!(self.link.is_none()); self.data.push(inst)
push(b, inst) ==
    IF b.fatal THEN b
    ELSE IF b.link # NoLink THEN [b EXCEPT !.fatal = TRUE]
    ELSE [b EXCEPT !.data = Append(@, inst)]

\* BasicBlock::terminate: assert!(self.link.is_none()); self.link = Some(link)
terminate(b, link) ==
    IF b.fatal THEN b
    ELSE IF b.link # NoLink THEN [b EXCEPT !.fatal = TRUE]
    ELSE [b EXCEPT !.link = link]

(***************************************************************************)
(* block/lifter.rs: the block-builder operations.  Each yields the block   *)
(* after the call (bb) and the variables it returns (v, and c, o for the   *)
(* flag outputs).                                                          *)
(***************************************************************************)
Ret(b, v) == [bb |-> b, v |-> v, c |-> NoVar, o |-> NoVar]
Ret3(b, v, c, o) == [bb |-> b, v |-> v, c |-> c, o |-> o]

\* BindOpLifter::constant(a, b): Constant::new(a, b), i.e. a is the width
constant(b, a1, a2) ==
    IF b.fatal THEN Ret(b, NoVar)
    ELSE LET c == Constant_new(a1, a2)
             hit == get_constant(b.lb, c)
         IN  IF hit # NoVar THEN Ret(b, hit)
             ELSE LET al == alloca_constant(b.lb, c)
                      b1 == [b EXCEPT !.lb = al.lb]
                  IN  Ret(push(b1, I_constant(last_opcd(b), al.var, c)), al.var)

read_reg(b, reg) ==
    IF b.fatal THEN Ret(b, NoVar)
    ELSE LET al == alloca_guestreg(b.lb, reg)
             b1 == [b EXCEPT !.lb = al.lb]
         IN  Ret(push(b1, I_read_reg(last_opcd(b), al.var, reg)), al.var)

write_reg(b, reg, val) ==
    IF b.fatal THEN b ELSE push(b, I_write_reg(last_opcd(b), reg, val))

read_flag(b, kind) ==
    IF b.fatal THEN Ret(b, NoVar)
    ELSE LET al == alloca_local(b.lb, 1)
             b1 == [b EXCEPT !.lb = al.lb]
         IN  Ret(push(b1, I_read_flag(last_opcd(b), al.var, kind)), al.var)

write_flag(b, kind, val) ==
    IF b.fatal THEN b ELSE push(b, I_write_flag(last_opcd(b), kind, val))

load32(b, addr) ==
    IF b.fatal THEN Ret(b, NoVar)
    ELSE LET al == alloca_local(b.lb, 32)
             b1 == [b EXCEPT !.lb = al.lb]
         IN  Ret(push(b1, I_load32(last_opcd(b), al.var, addr)), al.var)

store32(b, addr, val) ==
    IF b.fatal THEN b ELSE push(b, I_store32(last_opcd(b), addr, val))

add32(b, x, y) ==
    IF b.fatal THEN Ret(b, NoVar)
    ELSE LET al == alloca_local(b.lb, 32)
             b1 == [b EXCEPT !.lb = al.lb]
         IN  Ret(push(b1, I_add32(last_opcd(b), al.var, x, y)), al.var)

sub32(b, x, y) ==
    IF b.fatal THEN Ret(b, NoVar)
    ELSE LET al == alloca_local(b.lb, 32)
             b1 == [b EXCEPT !.lb = al.lb]
         IN  Ret(push(b1, I_sub32(last_opcd(b), al.var, x, y)), al.var)

sub32f(b, x, y) ==
    IF b.fatal THEN Ret3(b, NoVar, NoVar, NoVar)
    ELSE LET r == alloca_local(b.lb, 32)
             c == alloca_local(r.lb, 1)
             v == alloca_local(c.lb, 1)
             b1 == [b EXCEPT !.lb = v.lb]
         IN  Ret3(push(b1, I_sub32f(last_opcd(b), r.var, c.var, v.var, x, y)),
                  r.var, c.var, v.var)

lsl32f(b, x, y) ==
    IF b.fatal THEN Ret3(b, NoVar, NoVar, NoVar)
    ELSE LET r == alloca_local(b.lb, 32)
             c == alloca_local(r.lb, 1)
             v == alloca_local(c.lb, 1)
             b1 == [b EXCEPT !.lb = v.lb]
         IN  Ret3(push(b1, I_lsl32f(last_opcd(b), r.var, c.var, v.var, x, y)),
                  r.var, c.var, v.var)

is_zero(b, x) ==
    IF b.fatal THEN Ret(b, NoVar)
    ELSE LET al == alloca_local(b.lb, 1)
             b1 == [b EXCEPT !.lb = al.lb]
         IN  Ret(push(b1, I_is_zero(last_opcd(b), al.var, x)), al.var)

is_negative(b, x) ==
    IF b.fatal THEN Ret(b, NoVar)
    ELSE LET al == alloca_local(b.lb, 1)
             b1 == [b EXCEPT !.lb = al.lb]
         IN  Ret(push(b1, I_is_negative(last_opcd(b), al.var, x)), al.var)

(***************************************************************************)
(* regalloc.rs: IntervalMap.  The map is a function from variables to      *)
(* <<def, last_use>>; fatal records the panic of use_var's unwrap or of    *)
(* the assertion that the block is terminated.                             *)
(***************************************************************************)
IntervalMap_new == [data |-> <<>>, fatal |-> FALSE]

\* F applied to the value of x, x being computed once
Strict(x, F(_)) == CHOOSE r \in {F(v) : v \in {x}} : TRUE

\* IntervalMap::define_var: self.data.insert(v, LiveInterval(def_idx, 0))
define_var(m, v, def_idx) ==
    Strict(m, LAMBDA map :
        IF map.fatal THEN map
        ELSE [map EXCEPT !.data = (v :> <<def_idx, 0>>) @@ @])

\* a plausible slip: the use position written to field .0, the definition
use_var_Field0(m, v, use_idx) ==
    Strict(m, LAMBDA map :
        IF map.fatal THEN map
        ELSE IF v \notin DOMAIN map.data THEN [map EXCEPT !.fatal = TRUE]
        ELSE [map EXCEPT !.data[v] = <<use_idx, @[2]>>])

\* IntervalMap::use_var: self.data.get_mut(&v).unwrap().1 = use_idx
use_var(m, v, use_idx) ==
    Strict(m, LAMBDA map :
        IF map.fatal THEN map
        ELSE IF v \notin DOMAIN map.data THEN [map EXCEPT !.fatal = TRUE]
        ELSE [map EXCEPT !.data[v] = <<@[1], use_idx>>])

RECURSIVE UseVars(_, _, _, _)
UseVars(m, used, i, pos) ==
    IF i > Len(used) THEN m ELSE UseVars(use_var(m, used[i], pos), used, i + 1, pos)

\* the body of the for loop of from_block, for the instruction at 0-based pos
ScanInst(m, inst, pos) ==
    LET m1 == IF inst.lh # NoVar THEN define_var(m, inst.lh, pos) ELSE m
        m2 == IF inst.lh_c # NoVar THEN define_var(m1, inst.lh_c, pos) ELSE m1
        m3 == IF inst.lh_v # NoVar THEN define_var(m2, inst.lh_v, pos) ELSE m2
    IN  UseVars(m3, get_used_vars(inst), 1, pos)

RECURSIVE ScanData(_, _, _)
ScanData(m, data, i) ==
    IF i > Len(data) THEN m
    ELSE Strict(ScanInst(m, data[i], i - 1), LAMBDA m1 : ScanData(m1, data, i + 1))

\* IntervalMap::from_block
from_block(b) ==
    LET m == ScanData(IntervalMap_new, b.data, 1)
        n == Len(b.data)
    IN  IF b.link = NoLink THEN [m EXCEPT !.fatal = TRUE]
        ELSE IF b.link.tag = "Branch" THEN use_var(m, b.link.a, n)
        ELSE use_var(use_var(m, b.link.a, n), b.link.b, n)

\* a plausible slip: the filter reads field .0, the definition position
get_dead_vars_ByDef(map) == {v \in DOMAIN map : map[v][1] = 0}

\* a plausible slip: only locals are ever reported dead
get_dead_vars_LocalsOnly(map) ==
    {v \in DOMAIN map : map[v][2] = 0 /\ v.kind = "Local"}

\* IntervalMap::get_dead_vars
get_dead_vars(map) == {v \in DOMAIN map : map[v][2] = 0}

(***************************************************************************)
(* opt.rs: BasicBlock::prune_dead_vars.  PrunePass is one pass of its      *)
(* loop: the block after the pass, and whether the loop exited (done).     *)
(***************************************************************************)
RECURSIVE RemoveDeadConstants(_, _)
RemoveDeadConstants(lb, dead) ==
    IF dead = {} THEN lb
    ELSE LET d == CHOOSE x \in dead : TRUE
             lb1 == IF d.kind = "Constant"
                    THEN remove_constant(lb, Constant_new(d.width, d.val))
                    ELSE lb
         IN  RemoveDeadConstants(lb1, dead \ {d})

\* the inner loop over self.data.iter_mut()
UnbindDeadFlags(inst, dead) ==
    [inst EXCEPT !.lh_c = IF @ # NoVar /\ @ \in dead THEN NoVar ELSE @,
                 !.lh_v = IF @ # NoVar /\ @ \in dead THEN NoVar ELSE @]

\* the closure handed to self.data.retain
Retained(inst, dead) ==
    IF inst.lh_c # NoVar \/ inst.lh_v # NoVar THEN TRUE
    ELSE \A dvar \in dead : IF inst.lh # NoVar THEN dvar # inst.lh ELSE TRUE

RECURSIVE Retain(_, _)
Retain(data, dead) ==
    IF data = <<>> THEN <<>>
    ELSE IF Retained(Head(data), dead)
         THEN <<Head(data)>> \o Retain(Tail(data), dead)
         ELSE Retain(Tail(data), dead)

\* a plausible slip: a single pass with no fixpoint loop around it
PrunePass_Once(b) ==
    LET m == from_block(b)
        b1 == [b EXCEPT !.intervals = m.data]
        deadlist == get_dead_vars(m.data)
        data1 == [i \in 1 .. Len(b.data) |-> UnbindDeadFlags(b.data[i], deadlist)]
    IN  IF m.fatal THEN [bb |-> [b EXCEPT !.fatal = TRUE], done |-> FALSE]
        ELSE [bb |-> [b1 EXCEPT !.lb = RemoveDeadConstants(b.lb, deadlist),
                                !.data = Retain(data1, deadlist)],
              done |-> TRUE]

PrunePass(b) ==
    Strict(from_block(b), LAMBDA m :
    Strict(get_dead_vars(m.data), LAMBDA deadlist :
    Strict([i \in 1 .. Len(b.data) |-> UnbindDeadFlags(b.data[i], deadlist)], LAMBDA data1 :
        IF m.fatal THEN [bb |-> [b EXCEPT !.fatal = TRUE], done |-> FALSE]
        ELSE IF deadlist = {} THEN [bb |-> [b EXCEPT !.intervals = m.data], done |-> TRUE]
        ELSE [bb |-> [b EXCEPT !.intervals = m.data,
                               !.lb = RemoveDeadConstants(b.lb, deadlist),
                               !.data = Retain(data1, deadlist)],
              done |-> FALSE])))

(***************************************************************************)
(* regalloc.rs: RegisterPool, StorageLoc, allocate_registers               *)
(***************************************************************************)
\* HostRegister discriminants
RAX == 0
RCX == 1
RDX == 2
RBX == 3
R8  == 8
R9  == 9
R10 == 10
R11 == 11

\* a plausible slip: R13 (the CPSR pointer) offered by the pool as well
RegisterPool_new_WithR13 == <<13, R11, R10, R9, R8, RBX, RDX, RCX, RAX>>

\* a plausible slip: a pool without RBX, the callee-save register
RegisterPool_new_NoRbx == <<R11, R10, R9, R8, RDX, RCX, RAX>>

\* RegisterPool::new
RegisterPool_new == <<R11, R10, R9, R8, RBX, RDX, RCX, RAX>>

Gpr(r) == [tag |-> "Gpr", r |-> r, c |-> Zero32]
Const(c) == [tag |-> "Const", r |-> 0, c |-> c]

\* the keys of the BTreeMap in ascending order
RECURSIVE SortedVars(_)
SortedVars(S) ==
    IF S = {} THEN <<>>
    ELSE LET lo == CHOOSE v \in S : \A w \in S \ {v} : VarLess(v, w)
         IN  <<lo>> \o SortedVars(S \ {lo})

\* a plausible slip: an active entry expires once the new variable is defined
\* at or after the entry's own definition
Expired_ByDef(entry, interval) == entry.interval[1] <= interval[1]

\* the test of active.retain: active_var.interval.1 <= interval.0
Expired(entry, interval) == entry.interval[2] <= interval[1]

\* active.retain(..): the entries kept, and the pool after the put_backs
RECURSIVE Expire(_, _, _, _)
Expire(active, pool, interval, i) ==
    IF i > Len(active) THEN [active |-> <<>>, pool |-> pool]
    ELSE IF Expired(active[i], interval)
         THEN Expire(active, Append(pool, active[i].reg), interval, i + 1)
         ELSE LET rest == Expire(active, pool, interval, i + 1)
              IN  [active |-> <<active[i]>> \o rest.active, pool |-> rest.pool]

Bind(storage, v, s) == (v :> s) @@ storage

\* one iteration of the for loop of allocate_registers
AllocStep(st, var, interval) ==
    IF st.fatal THEN st
    ELSE IF var.kind = "Constant"
         THEN [st EXCEPT !.storage = Bind(@, var, Const(var.val))]
    ELSE LET e == Expire(st.active, st.pool, interval, 1)
         IN  IF e.pool = <<>> THEN [st EXCEPT !.fatal = TRUE]
             ELSE LET reg == e.pool[Len(e.pool)]
                  IN  [active |-> Append(e.active,
                                    [var |-> var, interval |-> interval, reg |-> reg]),
                       pool |-> SubSeq(e.pool, 1, Len(e.pool) - 1),
                       storage |-> Bind(st.storage, var, Gpr(reg)),
                       fatal |-> FALSE]

RECURSIVE AllocLoop(_, _, _, _)
AllocLoop(st, order, map, i) ==
    IF i > Len(order) THEN st
    ELSE Strict(AllocStep(st, order[i], map[order[i]]), LAMBDA st1 :
             AllocLoop(st1, order, map, i + 1))

\* allocate_registers: the storage map, or fatal on "Spilling is unimplemented"
allocate_registers(map) ==
    AllocLoop([active |-> <<>>, pool |-> RegisterPool_new, storage |-> <<>>,
               fatal |-> FALSE],
              SortedVars(DOMAIN map), map, 1)

(***************************************************************************)
(* The block pipeline: a block is built by block-builder calls, as a       *)
(* lifter handler makes them, then pruned and handed to the allocator.     *)
(*   phase "lift"       builder calls; the block may be terminated         *)
(*   phase "prune"      inside the loop of prune_dead_vars                 *)
(*   phase "pruned"     prune_dead_vars has returned                       *)
(*   phase "allocated"  from_block and allocate_registers have returned    *)
(*   phase "fatal"      a panic                                            *)
(***************************************************************************)
MaxData == 3

GuestRegs == {14}
Flags == {"Carry"}
\* <<width, value>> arguments of constant: two of them name the same constant
ConstArgs == {<<32, <<0, 4>> >>, <<1, <<0, 1>> >>, <<1, <<0, 3>> >>}
Conds == {0}
BasePcs == {<<0, 0>>}
\* mov r0, #1
BuildOps == {<<\He3a0, \H0001>>}

VarArgs == bb.lb.var_map

BlockInit ==
    /\ \E pc \in BasePcs, o \in BuildOps :
          bb = [BasicBlock_new(pc) EXCEPT !.guest_ops = <<o>>]
    /\ phase = "lift"
    /\ DecoderOff
    /\ JitOff

\* the caller's view of a builder call: a panic ends the lift
Called(b) ==
    /\ phase = "lift"
    /\ bb' = b
    /\ phase' = IF b.fatal THEN "fatal" ELSE "lift"
    /\ UNCHANGED <<decvars, jitvars>>

Room == Len(bb.data) < MaxData

CallConstant ==
    \E a \in ConstArgs :
        /\ Room \/ get_constant(bb.lb, Constant_new(a[1], a[2])) # NoVar
        /\ Called(constant(bb, a[1], a[2]).bb)

CallReadReg == \E r \in GuestRegs : Room /\ Called(read_reg(bb, r).bb)

CallWriteReg ==
    \E r \in GuestRegs, v \in VarArgs : Room /\ Called(write_reg(bb, r, v))

CallReadFlag == \E k \in Flags : Room /\ Called(read_flag(bb, k).bb)

CallWriteFlag ==
    \E k \in Flags, v \in VarArgs : Room /\ Called(write_flag(bb, k, v))

CallLoad32 == \E a \in VarArgs : Room /\ Called(load32(bb, a).bb)

CallStore32 == \E a, v \in VarArgs : Room /\ Called(store32(bb, a, v))

CallAdd32 == \E x, y \in VarArgs : Room /\ Called(add32(bb, x, y).bb)

CallSub32 == \E x, y \in VarArgs : Room /\ Called(sub32(bb, x, y).bb)

CallSub32f == \E x, y \in VarArgs : Room /\ Called(sub32f(bb, x, y).bb)

CallLsl32f == \E x, y \in VarArgs : Room /\ Called(lsl32f(bb, x, y).bb)

CallIsZero == \E x \in VarArgs : Room /\ Called(is_zero(bb, x).bb)

CallIsNegative == \E x \in VarArgs : Room /\ Called(is_negative(bb, x).bb)

\* a second terminate is tried with the targets of the first
LinkArgs == IF bb.link = NoLink THEN VarArgs ELSE {bb.link.a}

CallTerminate ==
    \E x, y \in LinkArgs, c \in Conds :
        \E l \in {Branch(x), BranchAndLink(x, y), BranchCond(c, x, y)} :
            Called(terminate(bb, l))

\* the loop of BasicBlock::lift breaks once the handler has terminated the block
LiftReturns ==
    /\ phase = "lift"
    /\ bb.link # NoLink
    /\ phase' = "prune"
    /\ UNCHANGED <<bb, decvars, jitvars>>

\* one pass of the loop of prune_dead_vars; the first run of it
PruneStep ==
    /\ phase = "prune"
    /\ LET r == PrunePass(bb)
       IN  /\ bb' = r.bb
           /\ phase' = IF r.bb.fatal THEN "fatal"
                       ELSE IF r.done THEN "pruned" ELSE "prune"
    /\ UNCHANGED <<decvars, jitvars>>

\* prune_dead_vars called again on the block it returned
PruneAgain ==
    /\ phase = "pruned"
    /\ LET r == PrunePass(bb)
       IN  /\ bb' = r.bb
           /\ phase' = IF r.bb.fatal THEN "fatal"
                       ELSE IF r.done THEN "pruned" ELSE "prune"
    /\ UNCHANGED <<decvars, jitvars>>

\* the first two statements of recompile: from_block, allocate_registers
Allocate ==
    /\ phase = "pruned"
    /\ LET m == from_block(bb)
           st == allocate_registers(m.data)
       IN  IF m.fatal \/ st.fatal
           THEN /\ bb' = [bb EXCEPT !.fatal = TRUE]
                /\ phase' = "fatal"
           ELSE /\ bb' = [bb EXCEPT !.intervals = m.data, !.storage = st.storage]
                /\ phase' = "allocated"
    /\ UNCHANGED <<decvars, jitvars>>

BlockNext ==
    \/ CallConstant \/ CallReadReg \/ CallWriteReg \/ CallReadFlag
    \/ CallWriteFlag \/ CallLoad32 \/ CallStore32 \/ CallAdd32 \/ CallSub32
    \/ CallSub32f \/ CallLsl32f \/ CallIsZero \/ CallIsNegative
    \/ CallTerminate \/ LiftReturns \/ PruneStep \/ PruneAgain \/ Allocate

SpecBlock == BlockInit /\ [][BlockNext]_vars

(***************************************************************************)
(* The allocator on its own: allocate_registers applied to interval maps   *)
(* of the shape IntervalMap::from_block produces.  Variable i is defined   *)
(* at position i; its last use is 0 (never used), the next position, or    *)
(* the end of the block; the variables of ConstIds may be constants.       *)
(*   phase "alloc_in"   an interval map is given                           *)
(*   phase "alloc_out"  allocate_registers has returned the storage map    *)
(*   phase "fatal"      "Spilling is unimplemented"                        *)
(***************************************************************************)
MaxVars == 9

ConstIds == {{}, {1, 5}}

LastUses == {"never", "next", "end"}

IntervalOf(i, use) ==
    <<i, CASE use = "never" -> 0 [] use = "next" -> i + 1 [] OTHER -> MaxVars>>

IntervalMaps ==
    { [v \in { IF i \in cs THEN new_constant(i, 32, <<0, i>>) ELSE new_local(i, 32) :
                 i \in 0 .. (MaxVars - 1) } |-> IntervalOf(v.id, uses[v.id])] :
        <<uses, cs>> \in [0 .. (MaxVars - 1) -> LastUses] \X ConstIds }

AllocInit ==
    /\ \E map \in IntervalMaps :
          bb = [intervals |-> map, storage |-> <<>>, fatal |-> FALSE, last |-> <<>>]
    /\ phase = "alloc_in"
    /\ DecoderOff
    /\ JitOff

\* allocate_registers(&intervals): the storage map is returned, or the call
\* panics and returns nothing; last keeps the locals of the call (active,
\* pool, storage) as they were when its loop ended
AllocateMap ==
    /\ phase = "alloc_in"
    /\ LET st == allocate_registers(bb.intervals)
       IN  /\ bb' = [bb EXCEPT !.storage = IF st.fatal THEN <<>> ELSE st.storage,
                               !.fatal = st.fatal, !.last = st]
           /\ phase' = IF st.fatal THEN "fatal" ELSE "alloc_out"
    /\ UNCHANGED <<decvars, jitvars>>

AllocNext == AllocateMap

SpecAlloc == AllocInit /\ [][AllocNext]_vars


(***************************************************************************)
(* guest.rs: 32-bit arithmetic on <<high half, low half>>, ProgramCounter, *)
(* Cond                                                                    *)
(***************************************************************************)
\* a natural number below 2^31 as a u32
FromNat(n) == <<n \div 65536, n % 65536>>

\* u32::wrapping_add
wrapping_add(a, b) ==
    LET lo == a[2] + b[2]
    IN  <<(a[1] + b[1] + (lo \div 65536)) % 65536, lo % 65536>>

\* u32::wrapping_sub
wrapping_sub(a, b) ==
    LET borrow == IF a[2] < b[2] THEN 1 ELSE 0
    IN  <<(a[1] - b[1] - borrow + 65536) % 65536, (a[2] - b[2] + 65536) % 65536>>

\* (x as i32).wrapping_add(k) as u32, for a signed k
wrapping_add_signed(a, k) ==
    IF k >= 0 THEN wrapping_add(a, FromNat(k)) ELSE wrapping_sub(a, FromNat(-k))

\* ProgramCounter::exec, fetch, increment
exec(pc) == wrapping_add(pc, <<0, 8>>)
fetch(pc) == pc
increment(pc) == wrapping_add(pc, <<0, 4>>)

\* Cond::AL = 0b1110
AL == 14

\* Cond::from panics on 0b1111
CondValid(x) == x <= AL

\* BasicBlock::read_fetch_pc, read_exec_pc, increment_pc
read_fetch_pc(b) == fetch(b.pc)
read_exec_pc(b) == exec(b.pc)
\* a plausible slip: the fetch address is never advanced
increment_pc_Stay(b) == b

increment_pc(b) == [b EXCEPT !.pc = increment(@)]

\* a panic while the block is built or compiled: the block is lost
Panic(b) == [b EXCEPT !.fatal = TRUE]

(***************************************************************************)
(* lift/arm/bits.rs is not part of the sources: the opcode fields are the  *)
(* ARM encoding's, as the handlers and the specification's examples use    *)
(* them.                                                                   *)
(***************************************************************************)
bits_cond(op)  == op[1] \div 4096
bits_rn(op)    == op[1] % 16
bits_rd(op)    == op[2] \div 4096
bits_rt(op)    == op[2] \div 4096
bits_rm(op)    == op[2] % 16
bits_imm12(op) == op[2] % 4096
bits_imm24(op) == (op[1] % 256) * 65536 + op[2]
bits_imm5(op)  == (op[2] \div 128) % 32
bits_stype(op) == (op[2] \div 32) % 4
bits_s(op)     == (op[1] \div 16) % 2 = 1
bits_w(op)     == (op[1] \div 32) % 2 = 1
bits_u(op)     == (op[1] \div 128) % 2 = 1
bits_p(op)     == (op[1] \div 256) % 2 = 1
bits_register_list(op) == op[2]

(***************************************************************************)
(* lift/alu.rs: the barrel shifter                                         *)
(***************************************************************************)
\* u32::rotate_right
RECURSIVE rotate_right(_, _)
rotate_right(x, n) ==
    IF n = 0 THEN x
    ELSE rotate_right(<<(x[1] \div 2) + (x[2] % 2) * 32768,
                        (x[2] \div 2) + (x[1] % 2) * 32768>>, n - 1)

\* the value x, computed first, handed on to the rest of the computation
With(x, F(_)) == CHOOSE r \in {F(v) : v \in {x}} : TRUE

\* rot_by_imm: the value as v, the carry out as c
rot_by_imm(b, imm12) ==
    With(rotate_right(<<0, imm12 % 256>>, (imm12 \div 256) * 2), LAMBDA val :
    With(constant(b, 32, val), LAMBDA res :
    With(IF imm12 \div 256 = 0 THEN read_flag(res.bb, "Carry")
         ELSE constant(res.bb, 1, <<0, IF val[1] >= 32768 THEN 1 ELSE 0>>),
         LAMBDA c_out :
    Ret3(c_out.bb, res.v, c_out.v, NoVar))))

\* do_lsl
do_lsl(b, rm, simm) ==
    IF simm = 0
    THEN With(read_flag(b, "Carry"), LAMBDA c_out : Ret3(c_out.bb, rm, c_out.v, NoVar))
    ELSE With(constant(b, 32, <<0, simm>>), LAMBDA simm_val :
         With(lsl32f(simm_val.bb, rm, simm_val.v), LAMBDA r :
         Ret3(r.bb, r.v, r.c, NoVar)))

\* shift_by_imm: only Lsl is implemented
shift_by_imm(b, rm, stype, simm) ==
    IF stype = 0 THEN do_lsl(b, rm, simm) ELSE Ret3(Panic(b), NoVar, NoVar, NoVar)

(***************************************************************************)
(* lift/arm/dataproc.rs                                                    *)
(***************************************************************************)
\* the S-bit tail of sub_imm and cmp_imm: N, Z, C, V
WriteNZCV(b, res, c, v) ==
    With(is_negative(b, res), LAMBDA n :
    With(is_zero(n.bb, res), LAMBDA z :
    write_flag(write_flag(write_flag(write_flag(z.bb, "Negative", n.v),
                                     "Zero", z.v), "Carry", c), "Overflow", v)))

\* the S-bit tail of mov_imm and mov_reg: N, Z, C
WriteNZC(b, res, c) ==
    With(is_negative(b, res), LAMBDA n :
    With(is_zero(n.bb, res), LAMBDA z :
    write_flag(write_flag(write_flag(z.bb, "Negative", n.v), "Zero", z.v),
               "Carry", c)))

sub_imm(b, op) ==
    IF bits_cond(op) # AL THEN Panic(b)
    ELSE With(rot_by_imm(b, bits_imm12(op)), LAMBDA sh :
         With(IF bits_rn(op) = 15 THEN constant(sh.bb, 32, read_exec_pc(sh.bb))
              ELSE read_reg(sh.bb, bits_rn(op)), LAMBDA rn :
         With(sub32f(rn.bb, rn.v, sh.v), LAMBDA r :
         IF bits_rd(op) = 15 THEN Panic(r.bb)
         ELSE write_reg(IF bits_s(op) THEN WriteNZCV(r.bb, r.v, r.c, r.o) ELSE r.bb,
                        bits_rd(op), r.v))))

mov_imm(b, op) ==
    IF bits_cond(op) # AL THEN Panic(b)
    ELSE With(rot_by_imm(b, bits_imm12(op)), LAMBDA sh :
         IF bits_rd(op) = 15 THEN Panic(sh.bb)
         ELSE With(write_reg(sh.bb, bits_rd(op), sh.v), LAMBDA b1 :
              IF bits_s(op) THEN WriteNZC(b1, sh.v, sh.c) ELSE b1))

mov_reg(b, op) ==
    IF bits_cond(op) # AL THEN Panic(b)
    ELSE With(IF bits_rm(op) = 15 THEN constant(b, 32, read_exec_pc(b))
              ELSE read_reg(b, bits_rm(op)), LAMBDA rm :
         With(shift_by_imm(rm.bb, rm.v, bits_stype(op), bits_imm5(op)), LAMBDA sh :
         IF bits_rd(op) = 15 THEN Panic(sh.bb)
         ELSE With(write_reg(sh.bb, bits_rd(op), sh.v), LAMBDA b1 :
              IF bits_s(op) THEN WriteNZC(b1, sh.v, sh.c) ELSE b1)))

cmp_imm(b, op) ==
    IF bits_cond(op) # AL THEN Panic(b)
    ELSE With(read_reg(b, bits_rn(op)), LAMBDA rn :
         With(rot_by_imm(rn.bb, bits_imm12(op)), LAMBDA sh :
         With(sub32f(sh.bb, rn.v, sh.v), LAMBDA r :
         WriteNZCV(r.bb, r.v, r.c, r.o))))

(***************************************************************************)
(* lift/arm/loadstore.rs                                                   *)
(***************************************************************************)
\* amode_lit
amode_lit(pc, imm, p, u) ==
    IF p /\ u THEN wrapping_add(pc, imm)
    ELSE IF p THEN wrapping_sub(pc, imm)
    ELSE pc

\* a plausible slip: the post-indexed form accessing memory at the sum
amode_PostAtSum(b, rn, imm, u, p, w) ==
    With(IF u THEN add32(b, rn, imm) ELSE sub32(b, rn, imm), LAMBDA res :
    CASE ~p /\ ~w -> Ret3(res.bb, res.v, res.v, NoVar)
      [] p /\ ~w  -> Ret3(res.bb, res.v, rn, NoVar)
      [] p /\ w   -> Ret3(res.bb, res.v, res.v, NoVar)
      [] OTHER    -> Ret3(Panic(res.bb), NoVar, NoVar, NoVar))

\* amode: the effective address as v, the write-back value as c
amode(b, rn, imm, u, p, w) ==
    With(IF u THEN add32(b, rn, imm) ELSE sub32(b, rn, imm), LAMBDA res :
    CASE ~p /\ ~w -> Ret3(res.bb, rn, res.v, NoVar)
      [] p /\ ~w  -> Ret3(res.bb, res.v, rn, NoVar)
      [] p /\ w   -> Ret3(res.bb, res.v, res.v, NoVar)
      [] OTHER    -> Ret3(Panic(res.bb), NoVar, NoVar, NoVar))

\* the two arms of ldr_imm that compute res
ldr_imm_lit(b, op) ==
    With(constant(b, 32, amode_lit(read_exec_pc(b), FromNat(bits_imm12(op)),
                                   bits_p(op), bits_u(op))), LAMBDA addr :
    load32(addr.bb, addr.v))

ldr_imm_reg(b, op) ==
    With(read_reg(b, bits_rn(op)), LAMBDA rn :
    With(constant(rn.bb, 32, FromNat(bits_imm12(op))), LAMBDA imm :
    With(amode(imm.bb, rn.v, imm.v, bits_u(op), bits_p(op), bits_w(op)), LAMBDA am :
    load32(write_reg(am.bb, bits_rn(op), am.c), am.v))))

ldr_imm(b, op) ==
    IF bits_cond(op) # AL THEN Panic(b)
    ELSE With(IF bits_rn(op) = 15 THEN ldr_imm_lit(b, op) ELSE ldr_imm_reg(b, op),
              LAMBDA res :
         IF bits_rt(op) = 15 THEN Panic(res.bb)
         ELSE write_reg(res.bb, bits_rt(op), res.v))

str_imm(b, op) ==
    IF bits_cond(op) # AL THEN Panic(b)
    ELSE With(read_reg(b, bits_rt(op)), LAMBDA rt :
         With(read_reg(rt.bb, bits_rn(op)), LAMBDA rn :
         With(constant(rn.bb, 32, FromNat(bits_imm12(op))), LAMBDA imm :
         With(amode(imm.bb, rn.v, imm.v, bits_u(op), bits_p(op), bits_w(op)), LAMBDA am :
         store32(write_reg(am.bb, bits_rn(op), am.c), am.v, rt.v)))))

\* u32::count_ones of the 16-bit register list
RECURSIVE count_ones(_)
count_ones(x) == IF x = 0 THEN 0 ELSE (x % 2) + count_ones(x \div 2)

\* the loop of stm_common over reg_idx in 0..=14: the block as bb, addr as v
RECURSIVE StmLoop(_, _, _, _, _)
StmLoop(b, list, addr, inc_val, reg_idx) ==
    IF reg_idx > 14 THEN Ret(b, addr)
    ELSE IF (list \div Pow2(reg_idx)) % 2 = 1
         THEN With(read_reg(b, reg_idx), LAMBDA reg_val :
              With(add32(store32(reg_val.bb, addr, reg_val.v), addr, inc_val), LAMBDA nxt :
              StmLoop(nxt.bb, list, nxt.v, inc_val, reg_idx + 1)))
         ELSE StmLoop(b, list, addr, inc_val, reg_idx + 1)

stm_common(b, list, rn, base_addr, wb_addr, w) ==
    With(constant(b, 32, <<0, 4>>), LAMBDA inc_val :
    With(StmLoop(inc_val.bb, list, base_addr, inc_val.v, 0), LAMBDA lp :
    With(IF w THEN write_reg(lp.bb, rn, wb_addr) ELSE lp.bb, LAMBDA b1 :
    IF (list \div Pow2(15)) % 2 = 1
    THEN With(constant(b1, 32, read_exec_pc(b1)), LAMBDA pc_val :
         store32(pc_val.bb, pc_val.v, lp.v))
    ELSE b1)))

stmdb(b, op) ==
    IF bits_cond(op) # AL \/ bits_rn(op) = 15 THEN Panic(b)
    ELSE With(constant(b, 32, FromNat(count_ones(bits_register_list(op)) * 4)),
              LAMBDA addr_off :
         With(read_reg(addr_off.bb, bits_rn(op)), LAMBDA rn_val :
         With(sub32(rn_val.bb, rn_val.v, addr_off.v), LAMBDA base_addr :
         stm_common(base_addr.bb, bits_register_list(op), bits_rn(op),
                    base_addr.v, base_addr.v, bits_w(op)))))

(***************************************************************************)
(* lift/arm/branch.rs                                                      *)
(***************************************************************************)
\* a plausible slip: the field taken as unsigned
sign_extend_Unsigned(x, bits) == x

\* sign_extend(x, bits) for x below 2^bits
sign_extend(x, bits) ==
    IF (x \div Pow2(bits - 1)) % 2 # 0 THEN x - Pow2(bits) ELSE x

\* a plausible slip: the target taken from the fetch address
branch_b_FromFetch(blk, op) ==
    With(constant(blk, 32, wrapping_add_signed(read_fetch_pc(blk),
                                               sign_extend(bits_imm24(op), 24) * 4)),
         LAMBDA target :
    IF ~CondValid(bits_cond(op)) THEN Panic(target.bb)
    ELSE IF bits_cond(op) = AL THEN terminate(target.bb, Branch(target.v))
    ELSE With(constant(target.bb, 32, wrapping_add(read_fetch_pc(target.bb), <<0, 4>>)),
              LAMBDA target_false :
         terminate(target_false.bb,
                   BranchCond(bits_cond(op), target.v, target_false.v))))

branch_b(blk, op) ==
    With(constant(blk, 32, wrapping_add_signed(read_exec_pc(blk),
                                               sign_extend(bits_imm24(op), 24) * 4)),
         LAMBDA target :
    IF ~CondValid(bits_cond(op)) THEN Panic(target.bb)
    ELSE IF bits_cond(op) = AL THEN terminate(target.bb, Branch(target.v))
    ELSE With(constant(target.bb, 32, wrapping_add(read_fetch_pc(target.bb), <<0, 4>>)),
              LAMBDA target_false :
         terminate(target_false.bb,
                   BranchCond(bits_cond(op), target.v, target_false.v))))

\* a plausible slip: the link register set to the exec PC
bl_imm_LrExec(blk, op) ==
    IF bits_cond(op) # AL THEN Panic(blk)
    ELSE With(constant(blk, 32, read_exec_pc(blk)), LAMBDA new_lr :
         With(constant(new_lr.bb, 32,
                       wrapping_add_signed(read_exec_pc(new_lr.bb),
                                           sign_extend(bits_imm24(op), 24) * 4)),
              LAMBDA target :
         terminate(target.bb, BranchAndLink(target.v, new_lr.v))))

\* a plausible slip: bl_imm without its assertion on the condition
bl_imm_AnyCond(blk, op) ==
    IF ~CondValid(bits_cond(op)) THEN Panic(blk)
    ELSE With(constant(blk, 32, wrapping_add(read_fetch_pc(blk), <<0, 4>>)),
              LAMBDA new_lr :
         With(constant(new_lr.bb, 32,
                       wrapping_add_signed(read_exec_pc(new_lr.bb),
                                           sign_extend(bits_imm24(op), 24) * 4)),
              LAMBDA target :
         terminate(target.bb, BranchAndLink(target.v, new_lr.v))))

bl_imm(blk, op) ==
    IF bits_cond(op) # AL THEN Panic(blk)
    ELSE With(constant(blk, 32, wrapping_add(read_fetch_pc(blk), <<0, 4>>)),
              LAMBDA new_lr :
         With(constant(new_lr.bb, 32,
                       wrapping_add_signed(read_exec_pc(new_lr.bb),
                                           sign_extend(bits_imm24(op), 24) * 4)),
              LAMBDA target :
         terminate(target.bb, BranchAndLink(target.v, new_lr.v))))

(***************************************************************************)
(* lift/dispatch.rs, block/lifter.rs: the handler call and the lift loop   *)
(***************************************************************************)
\* arm_unimpl_instr
arm_unimpl_instr(blk, op) == Panic(blk)

\* the call through the function pointer the LUT holds
CallHandler(f, blk, op) ==
    CASE f = "ldr_imm" -> ldr_imm(blk, op)
      [] f = "sub_imm" -> sub_imm(blk, op)
      [] f = "str_imm" -> str_imm(blk, op)
      [] f = "stmdb"   -> stmdb(blk, op)
      [] f = "b"       -> branch_b(blk, op)
      [] f = "bl_imm"  -> bl_imm(blk, op)
      [] f = "mov_imm" -> mov_imm(blk, op)
      [] f = "mov_reg" -> mov_reg(blk, op)
      [] f = "cmp_imm" -> cmp_imm(blk, op)
      [] OTHER         -> arm_unimpl_instr(blk, op)

(***************************************************************************)
(* mem.rs, guest.rs: the arena.  The memory is a function from the byte    *)
(* offsets that hold a non-zero byte to that byte; every other byte is 0.  *)
(***************************************************************************)
ArenaLen == 1048576

\* the offset of a 4-byte access that lies within the arena
InArena(a) == a[1] < 16 /\ a[1] * 65536 + a[2] + 4 <= ArenaLen

Offset(a) == a[1] * 65536 + a[2]

Byte(mem, o) == IF o \in DOMAIN mem THEN mem[o] ELSE 0

SetByte(mem, o, v) ==
    [x \in (IF v = 0 THEN DOMAIN mem \ {o} ELSE DOMAIN mem \cup {o}) |->
        IF x = o THEN v ELSE mem[x]]

\* MemRegion::read32: u32::from_be_bytes
read32(mem, o) ==
    <<Byte(mem, o) * 256 + Byte(mem, o + 1), Byte(mem, o + 2) * 256 + Byte(mem, o + 3)>>

\* MemRegion::write_buf of the big-endian bytes of one word
write_buf(mem, o, word) ==
    SetByte(SetByte(SetByte(SetByte(mem, o, word[1] \div 256), o + 1, word[1] % 256),
                    o + 2, word[2] \div 256), o + 3, word[2] % 256)

\* the loop of BasicBlock::lift: fetch, guest_ops.push, the handler, break or
\* increment_pc
RECURSIVE LiftLoop(_, _)
LiftLoop(blk, mem) ==
    IF ~InArena(read_fetch_pc(blk)) THEN Panic(blk)
    ELSE With(read32(mem, Offset(read_fetch_pc(blk))), LAMBDA word :
         With(CallHandler(lookup(word), [blk EXCEPT !.guest_ops = Append(@, word)], word),
              LAMBDA b2 :
         IF b2.fatal \/ b2.link # NoLink THEN b2
         ELSE LiftLoop(increment_pc(b2), mem)))

\* BasicBlock::lift(state, mmu)
lift(pc, mem) == LiftLoop(BasicBlock_new(pc), mem)

(***************************************************************************)
(* block/emitter.rs: recompile.  The code buffer is the sequence of the    *)
(* host instructions emitted; d and x name host registers, off is a byte   *)
(* offset from the guest-state pointer (R15), imm an immediate.            *)
(***************************************************************************)
H(op, d, x, off, imm) == [op |-> op, d |-> d, x |-> x, off |-> off, imm |-> imm]

Emitted(code) == [code |-> code, fatal |-> FALSE]
EmitPanic == [code |-> <<>>, fatal |-> TRUE]

\* self.storage.get(v).unwrap()
Loc(storage, v) == IF v \in DOMAIN storage THEN storage[v] ELSE [tag |-> "None", r |-> 0, c |-> Zero32]

\* the body of the loop over self.data for one instruction
EmitInst(inst, storage) ==
    LET t == inst.rh.tag
        lh == Loc(storage, inst.lh)
        x == Loc(storage, inst.rh.x)
        y == Loc(storage, inst.rh.y)
    IN  CASE t = "Const" -> Emitted(<<>>)
          [] t = "ReadGuestReg" ->
                IF lh.tag = "Gpr"
                THEN Emitted(<<H("mov_r_ctx", lh.r, 0, inst.rh.reg * 4, Zero32)>>)
                ELSE EmitPanic
          [] t = "WriteGuestReg" ->
                IF x.tag = "Gpr"
                THEN Emitted(<<H("mov_ctx_r", 0, x.r, inst.rh.reg * 4, Zero32)>>)
                ELSE IF x.tag = "Const"
                THEN Emitted(<<H("mov_ctx_i", 0, 0, inst.rh.reg * 4, x.c)>>)
                ELSE EmitPanic
          [] t = "Store32" ->
                IF x.tag = "Gpr" /\ y.tag = "Gpr"
                THEN Emitted(<<H("mov_mem_r", x.r, y.r, 0, Zero32)>>)
                ELSE IF x.tag = "Gpr" /\ y.tag = "Const"
                THEN Emitted(<<H("mov_mem_i", x.r, 0, 0, y.c)>>)
                ELSE EmitPanic
          [] t = "Load32" ->
                IF lh.tag = "Gpr" /\ x.tag = "Gpr"
                THEN Emitted(<<H("mov_r_mem", lh.r, x.r, 0, Zero32)>>)
                ELSE EmitPanic
          [] t = "Sub32" ->
                IF lh.tag = "Gpr" /\ x.tag = "Gpr" /\ y.tag = "Const"
                THEN IF lh.r = x.r
                     THEN Emitted(<<H("sub_r_i", x.r, 0, 0, y.c)>>)
                     ELSE Emitted(<<H("mov_r_r", lh.r, x.r, 0, Zero32),
                                    H("sub_r_i", lh.r, 0, 0, y.c)>>)
                ELSE EmitPanic
          [] t = "Add32" ->
                IF lh.tag = "Gpr" /\ x.tag = "Gpr" /\ y.tag = "Const"
                     /\ inst.lh_c = NoVar /\ inst.lh_v = NoVar
                THEN IF lh.r = x.r
                     THEN Emitted(<<H("add_r_i", x.r, 0, 0, y.c)>>)
                     ELSE Emitted(<<H("mov_r_r", lh.r, x.r, 0, Zero32),
                                    H("add_r_i", lh.r, 0, 0, y.c)>>)
                ELSE EmitPanic
          [] OTHER -> EmitPanic

RECURSIVE EmitData(_, _, _)
EmitData(data, i, storage) ==
    IF i > Len(data) THEN Emitted(<<>>)
    ELSE With(EmitInst(data[i], storage), LAMBDA e :
         IF e.fatal THEN EmitPanic
         ELSE With(EmitData(data, i + 1, storage), LAMBDA rest :
              IF rest.fatal THEN EmitPanic ELSE Emitted(e.code \o rest.code)))

\* a plausible slip: the terminator returns without storing the link register
EmitLink_NoLr(link, storage) ==
    LET a == Loc(storage, link.a)
        l == Loc(storage, link.b)
    IN  CASE link.tag = "Branch" /\ a.tag = "Const" ->
                Emitted(<<H("mov_ctx_i", 0, 0, 60, a.c),
                          H("mov_rax_i", 0, 0, 0, Zero32), H("ret", 0, 0, 0, Zero32)>>)
          [] link.tag = "BranchAndLink" /\ a.tag = "Const" /\ l.tag = "Const" ->
                Emitted(<<H("mov_ctx_i", 0, 0, 60, a.c),
                          H("mov_rax_i", 0, 0, 0, Zero32), H("ret", 0, 0, 0, Zero32)>>)
          [] OTHER -> EmitPanic

\* a plausible slip: the terminators return 1, the Halt code
EmitLink_RaxOne(link, storage) ==
    LET a == Loc(storage, link.a)
        l == Loc(storage, link.b)
    IN  CASE link.tag = "Branch" /\ a.tag = "Const" ->
                Emitted(<<H("mov_ctx_i", 0, 0, 60, a.c),
                          H("mov_rax_i", 0, 0, 0, <<0, 1>>), H("ret", 0, 0, 0, Zero32)>>)
          [] link.tag = "BranchAndLink" /\ a.tag = "Const" /\ l.tag = "Const" ->
                Emitted(<<H("mov_ctx_i", 0, 0, 56, l.c), H("mov_ctx_i", 0, 0, 60, a.c),
                          H("mov_rax_i", 0, 0, 0, <<0, 1>>), H("ret", 0, 0, 0, Zero32)>>)
          [] OTHER -> EmitPanic

\* a plausible slip: the link register stored one word too low, at R15 + 0x34
EmitLink_LrAtR13(link, storage) ==
    LET a == Loc(storage, link.a)
        l == Loc(storage, link.b)
    IN  CASE link.tag = "Branch" /\ a.tag = "Const" ->
                Emitted(<<H("mov_ctx_i", 0, 0, 60, a.c),
                          H("mov_rax_i", 0, 0, 0, Zero32), H("ret", 0, 0, 0, Zero32)>>)
          [] link.tag = "BranchAndLink" /\ a.tag = "Const" /\ l.tag = "Const" ->
                Emitted(<<H("mov_ctx_i", 0, 0, 52, l.c), H("mov_ctx_i", 0, 0, 60, a.c),
                          H("mov_rax_i", 0, 0, 0, Zero32), H("ret", 0, 0, 0, Zero32)>>)
          [] OTHER -> EmitPanic

\* the lowering of the terminator: PC is at R15 + 0x3c, R14 at R15 + 0x38
EmitLink(link, storage) ==
    LET a == Loc(storage, link.a)
        l == Loc(storage, link.b)
    IN  CASE link.tag = "Branch" /\ a.tag = "Const" ->
                Emitted(<<H("mov_ctx_i", 0, 0, 60, a.c),
                          H("mov_rax_i", 0, 0, 0, Zero32), H("ret", 0, 0, 0, Zero32)>>)
          [] link.tag = "BranchAndLink" /\ a.tag = "Const" /\ l.tag = "Const" ->
                Emitted(<<H("mov_ctx_i", 0, 0, 56, l.c), H("mov_ctx_i", 0, 0, 60, a.c),
                          H("mov_rax_i", 0, 0, 0, Zero32), H("ret", 0, 0, 0, Zero32)>>)
          [] OTHER -> EmitPanic

\* the emission part of recompile, for the block with its storage map
Emit(blk) ==
    With(EmitData(blk.data, 1, blk.storage), LAMBDA body :
    With(EmitLink(blk.link, blk.storage), LAMBDA tail :
    IF body.fatal \/ tail.fatal THEN Panic(blk)
    ELSE [blk EXCEPT !.code = body.code \o tail.code]))

\* BasicBlock::recompile
recompile(blk) ==
    With(from_block(blk), LAMBDA m :
    With(allocate_registers(m.data), LAMBDA st :
    IF m.fatal \/ st.fatal THEN Panic(blk)
    ELSE Emit([blk EXCEPT !.intervals = m.data, !.storage = st.storage])))

(***************************************************************************)
(* The machine that runs a compiled block: the host registers of the pool, *)
(* the guest state behind R15 and the arena behind R14.  The guest state   *)
(* is the #[repr(C)] GuestState as 17 words: reg[0..14], pc, cpsr.         *)
(***************************************************************************)
PC_WORD == 15
LR_WORD == 14
CPSR_WORD == 16

\* GuestState::new(pc, cpsr)
GuestState_new(pc, cpsr) ==
    [w \in 0 .. CPSR_WORD |-> IF w = PC_WORD THEN pc ELSE IF w = CPSR_WORD THEN cpsr ELSE Zero32]

HostRegs == {RAX, RCX, RDX, RBX, R8, R9, R10, R11}

\* a 32-bit store / load of the generated code: native (little-endian) order
Store32LE(mem, o, v) ==
    SetByte(SetByte(SetByte(SetByte(mem, o, v[2] % 256), o + 1, v[2] \div 256),
                    o + 2, v[1] % 256), o + 3, v[1] \div 256)

Load32LE(mem, o) ==
    <<Byte(mem, o + 3) * 256 + Byte(mem, o + 2), Byte(mem, o + 1) * 256 + Byte(mem, o)>>

\* the machine at block entry
Machine(state, mem) ==
    [host |-> [r \in HostRegs |-> Zero32], state |-> state, mem |-> mem,
     fault |-> FALSE, returned |-> FALSE]

\* one host instruction
Step(m, h) ==
    CASE h.op = "mov_r_ctx" -> [m EXCEPT !.host[h.d] = m.state[h.off \div 4]]
      [] h.op = "mov_ctx_r" -> [m EXCEPT !.state[h.off \div 4] = m.host[h.x]]
      [] h.op = "mov_ctx_i" -> [m EXCEPT !.state[h.off \div 4] = h.imm]
      [] h.op = "mov_mem_r" ->
            IF InArena(m.host[h.d])
            THEN [m EXCEPT !.mem = Store32LE(@, Offset(m.host[h.d]), m.host[h.x])]
            ELSE [m EXCEPT !.fault = TRUE]
      [] h.op = "mov_mem_i" ->
            IF InArena(m.host[h.d])
            THEN [m EXCEPT !.mem = Store32LE(@, Offset(m.host[h.d]), h.imm)]
            ELSE [m EXCEPT !.fault = TRUE]
      [] h.op = "mov_r_mem" ->
            IF InArena(m.host[h.x])
            THEN [m EXCEPT !.host[h.d] = Load32LE(m.mem, Offset(m.host[h.x]))]
            ELSE [m EXCEPT !.fault = TRUE]
      [] h.op = "mov_r_r"   -> [m EXCEPT !.host[h.d] = m.host[h.x]]
      [] h.op = "sub_r_i"   -> [m EXCEPT !.host[h.d] = wrapping_sub(@, h.imm)]
      [] h.op = "add_r_i"   -> [m EXCEPT !.host[h.d] = wrapping_add(@, h.imm)]
      [] h.op = "mov_rax_i" -> [m EXCEPT !.host[RAX] = h.imm]
      [] h.op = "ret"       -> [m EXCEPT !.returned = TRUE]

\* the block runs from its entry point to its ret
RECURSIVE Execute(_, _, _)
Execute(code, i, m) ==
    IF m.fault \/ m.returned THEN m
    ELSE IF i > Len(code) THEN [m EXCEPT !.fault = TRUE]
    ELSE Execute(code, i + 1, Step(m, code[i]))

(***************************************************************************)
(* runtime.rs: the dispatcher that RuntimeContext::new assembles.  A frame *)
(* is the host's view while the dispatcher runs: the callee-save registers,*)
(* RSP as a byte address, and the stack as a map from addresses to the     *)
(* 8-byte values stored there.  Host values are pairs like guest words.    *)
(***************************************************************************)
RSP == 4
RBP == 5
R12 == 12
R13 == 13
R14 == 14
R15 == 15

\* RuntimeContext::CALLEE_SAVE_REGS, CALLEE_SAVE_SIZE
CALLEE_SAVE_REGS == <<RBX, RBP, R12, R13, R14, R15>>
CALLEE_SAVE_SIZE == Len(CALLEE_SAVE_REGS) * 8

\* register_ptr, fastmem_ptr, cpsr_ptr: three addresses of the host
register_ptr == <<\H7ff0, 0>>
fastmem_ptr == <<\H1337, 0>>
cpsr_ptr == <<\H7ff0, 64>>

\* the return address a call pushes
RetAddr(who) == <<\Hcafe, who>>

\* a plausible slip: the registers popped in the order they were pushed
dispatcher_PopInPushOrder ==
    <<H("push", 0, RBX, 0, Zero32), H("push", 0, RBP, 0, Zero32),
      H("push", 0, R12, 0, Zero32), H("push", 0, R13, 0, Zero32),
      H("push", 0, R14, 0, Zero32), H("push", 0, R15, 0, Zero32),
      H("sub_rsp", 0, 0, CALLEE_SAVE_SIZE, Zero32),
      H("mov_r_i64", R15, 0, 0, register_ptr),
      H("mov_r_i64", R14, 0, 0, fastmem_ptr),
      H("mov_r_i64", R13, 0, 0, cpsr_ptr),
      H("call_rsi", 0, 0, 0, Zero32),
      H("add_rsp", 0, 0, CALLEE_SAVE_SIZE, Zero32),
      H("pop", RBX, 0, 0, Zero32), H("pop", RBP, 0, 0, Zero32),
      H("pop", R12, 0, 0, Zero32), H("pop", R13, 0, 0, Zero32),
      H("pop", R14, 0, 0, Zero32), H("pop", R15, 0, 0, Zero32),
      H("ret", 0, 0, 0, Zero32)>>

\* the code RuntimeContext::new assembles
dispatcher ==
    <<H("push", 0, RBX, 0, Zero32), H("push", 0, RBP, 0, Zero32),
      H("push", 0, R12, 0, Zero32), H("push", 0, R13, 0, Zero32),
      H("push", 0, R14, 0, Zero32), H("push", 0, R15, 0, Zero32),
      H("sub_rsp", 0, 0, CALLEE_SAVE_SIZE, Zero32),
      H("mov_r_i64", R15, 0, 0, register_ptr),
      H("mov_r_i64", R14, 0, 0, fastmem_ptr),
      H("mov_r_i64", R13, 0, 0, cpsr_ptr),
      H("call_rsi", 0, 0, 0, Zero32),
      H("add_rsp", 0, 0, CALLEE_SAVE_SIZE, Zero32),
      H("pop", R15, 0, 0, Zero32), H("pop", R14, 0, 0, Zero32),
      H("pop", R13, 0, 0, Zero32), H("pop", R12, 0, 0, Zero32),
      H("pop", RBP, 0, 0, Zero32), H("pop", RBX, 0, 0, Zero32),
      H("ret", 0, 0, 0, Zero32)>>

\* the host registers an instruction of generated code writes
Writes(h) ==
    IF h.op \in {"mov_r_ctx", "mov_r_mem", "mov_r_r", "sub_r_i", "add_r_i",
                 "mov_r_i64", "pop"}
    THEN {h.d}
    ELSE IF h.op = "mov_rax_i" THEN {RAX}
    ELSE IF h.op \in {"push", "sub_rsp", "add_rsp", "call_rsi", "ret"} THEN {RSP}
    ELSE {}

\* the translated block as the dispatcher's callee: it runs on the machine
\* from its first instruction (where RSP is recorded) to its ret, which
\* pops the return address; of the frame's registers it can change RBX
BlockCall(code, state, mem, f) ==
    With(Execute(code, 1, Machine(state, mem)), LAMBDA m :
        [f EXCEPT !.blk_rsp = f.rsp,
                  !.m = m,
                  !.fault = m.fault,
                  !.rsp = @ + 8,
                  !.reg[RBX] = IF \E i \in DOMAIN code : RBX \in Writes(code[i])
                               THEN m.host[RBX] ELSE @])

\* one instruction of the dispatcher on a frame; call_rsi pushes the return
\* address and runs the block (blk is the block's code with the guest state
\* and the arena it runs on)
FrameStep(f, h, blk) ==
    CASE h.op = "push" ->
            [f EXCEPT !.rsp = @ - 8, !.stack = ((f.rsp - 8) :> f.reg[h.x]) @@ @]
      [] h.op = "pop" ->
            [f EXCEPT !.rsp = @ + 8,
                      !.reg[h.d] = IF f.rsp \in DOMAIN f.stack THEN f.stack[f.rsp]
                                   ELSE Zero32]
      [] h.op = "sub_rsp" -> [f EXCEPT !.rsp = @ - h.off]
      [] h.op = "add_rsp" -> [f EXCEPT !.rsp = @ + h.off]
      [] h.op = "mov_r_i64" -> [f EXCEPT !.reg[h.d] = h.imm]
      [] h.op = "call_rsi" ->
            BlockCall(blk.code, blk.state, blk.mem,
                      [f EXCEPT !.rsp = @ - 8, !.stack = ((f.rsp - 8) :> RetAddr(2)) @@ @])
      [] OTHER -> f

\* the dispatcher from its entry to its ret; the frame it returns is the one
\* at the ret, when the return address of the caller is on top of the stack
RECURSIVE RunFrame(_, _, _, _)
RunFrame(f, code, i, blk) ==
    IF i > Len(code) \/ code[i].op = "ret" \/ f.fault THEN f
    ELSE RunFrame(FrameStep(f, code[i], blk), code, i + 1, blk)

\* the frame of a host that calls the dispatcher: its callee-save registers
\* hold values of its own, and RSP = 8 mod 16 right after its call
StackTop == 16 * 4096
HostFrame(k) ==
    [reg |-> [r \in {RBX, RBP, R12, R13, R14, R15} |-> <<k, r>>],
     rsp |-> StackTop - 16 * k - 8,
     stack |-> (StackTop - 16 * k - 8) :> RetAddr(1),
     fault |-> FALSE, blk_rsp |-> 0, m |-> <<>>]
HostFrames == {HostFrame(1), HostFrame(2)}
NoFrame == [reg |-> <<>>, rsp |-> 0, stack |-> <<>>, fault |-> FALSE, blk_rsp |-> 0, m |-> <<>>]

(***************************************************************************)
(* lib.rs, runtime.rs: Jit::run.  One action per step of the loop body:    *)
(*   phase "top"       the head of the loop                                *)
(*   phase "prune"     lift has returned new_block; prune_dead_vars runs   *)
(*   phase "pruned"    prune_dead_vars has returned                        *)
(*   phase "compiled"  recompile has returned                              *)
(*   phase "execute"   bb refers to the cache entry; trampoline is called  *)
(*   phase "returned"  trampoline has returned the exit code               *)
(*   phase "halt"      the loop was left                                   *)
(*   phase "fatal"     a panic, or a fault of the generated code           *)
(*   phase "wild"      the dispatcher called something else than the block *)
(* jit is the Jit (state, mmu, cache); run holds the locals of run; lifted *)
(* counts, per guest PC, the calls of lift and of recompile.               *)
(***************************************************************************)
MaxProg == 3

\* mov r0,#1; sub r1,r0,#1; str r1,[r0]; b .; b .+4; b .-8; bl .-4; bne .;
\* movs r0,#1
OpSet ==
    {<<\He3a0, \H0001>>, <<\He240, \H1001>>, <<\He580, \H1000>>,
     <<\Heaff, \Hfffe>>, <<\Heaff, \Hffff>>, <<\Heaff, \Hfffc>>,
     <<\Hebff, \Hfffd>>, <<\H1aff, \Hfffe>>, <<\He3b0, \H0001>>}

\* Jit::new
Jit_new == [state |-> GuestState_new(Zero32, Zero32), mmu |-> <<>>, cache |-> <<>>]

\* the host loads the program: GuestMmu::write_buf at address 0
RECURSIVE LoadProgram(_, _, _)
LoadProgram(mem, prog, i) ==
    IF i > Len(prog) THEN mem
    ELSE LoadProgram(write_buf(mem, (i - 1) * 4, prog[i]), prog, i + 1)

NotEntered == [kind |-> "none", code |-> <<>>]
NoBlock == <<>>

\* the host of bin/elfloader.rs: one word loaded at the entry point 0x1000 and
\* jit.state.pc set to it.  The words: b +12, bl +12, bl to itself, and bl
\* with the most negative offset.
ScenarioEntry == <<0, \H1000>>
ScenarioOps ==
    {<<\Hea00, \H0003>>, <<\Heb00, \H0003>>, <<\Hebff, \Hfffe>>, <<\Heb80, \H0000>>}

\* the load-literal scenario: ldr r0, [pc, #0xf8] at address 0, followed by
\* b . to end the block, and the bytes DE AD BE EF at 0x0100
LiteralProgram == <<<<\He59f, \H00f8>>, <<\Heaff, \Hfffe>>>>
LiteralAddr == <<0, \H0100>>
LiteralWord == <<\Hdead, \Hbeef>>
LiteralMmu == write_buf(LoadProgram(<<>>, LiteralProgram, 1), Offset(LiteralAddr), LiteralWord)

JitInit ==
    /\ \/ \E n \in 1 .. MaxProg : \E prog \in [1 .. n -> OpSet] :
             jit = [Jit_new EXCEPT !.mmu = LoadProgram(<<>>, prog, 1)]
       \/ jit = [Jit_new EXCEPT !.mmu = LiteralMmu]
       \/ \E word \in ScenarioOps :
             jit = [Jit_new EXCEPT !.state[PC_WORD] = ScenarioEntry,
                                   !.mmu = write_buf(<<>>, Offset(ScenarioEntry), word)]
    /\ run = [pc |-> Zero32, hit |-> FALSE, res |-> Zero32, entered |-> NotEntered,
              frame_in |-> NoFrame, frame_out |-> NoFrame]
    /\ lifted = <<>>
    /\ bb = NoBlock
    /\ phase = "top"
    /\ DecoderOff

\* a plausible slip: a cache of one entry, the insertion evicting the others
insert_Evict(cache, key, blk) == key :> blk

\* HashMap::insert
insert(cache, key, blk) == (key :> blk) @@ cache

\* the count of lift (k = 1) or recompile (k = 2) calls for pc, one more
Counted(l, pc, k) ==
    LET old == IF pc \in DOMAIN l THEN l[pc] ELSE <<0, 0>>
    IN  (pc :> [old EXCEPT ![k] = IF @ < 2 THEN @ + 1 ELSE @]) @@ l

\* pc = state.pc.fetch(); cache.get(&pc) is None; BasicBlock::lift
JitMiss ==
    /\ phase = "top"
    /\ LET pc == fetch(jit.state[PC_WORD])
       IN  /\ pc \notin DOMAIN jit.cache
           /\ bb' = lift(jit.state[PC_WORD], jit.mmu)
           /\ phase' = IF bb'.fatal THEN "fatal" ELSE "prune"
           /\ run' = [run EXCEPT !.pc = pc, !.hit = FALSE]
           /\ lifted' = Counted(lifted, pc, 1)
    /\ UNCHANGED <<jit, decvars>>

\* new_block.recompile()
JitRecompile ==
    /\ phase = "pruned"
    /\ bb' = recompile(bb)
    /\ phase' = IF bb'.fatal THEN "fatal" ELSE "compiled"
    /\ lifted' = Counted(lifted, run.pc, 2)
    /\ UNCHANGED <<jit, run, decvars>>

\* self.cache.insert(pc, new_block); self.cache.get(&pc).unwrap()
JitInsert ==
    /\ phase = "compiled"
    /\ jit' = [jit EXCEPT !.cache = insert(@, run.pc, bb)]
    /\ bb' = jit'.cache[run.pc]
    /\ phase' = "execute"
    /\ UNCHANGED <<run, lifted, decvars>>

\* pc = state.pc.fetch(); cache.get(&pc) is Some(block)
JitHit ==
    /\ phase = "top"
    /\ LET pc == fetch(jit.state[PC_WORD])
       IN  /\ pc \in DOMAIN jit.cache
           /\ bb' = jit.cache[pc]
           /\ run' = [run EXCEPT !.pc = pc, !.hit = TRUE]
    /\ phase' = "execute"
    /\ UNCHANGED <<jit, lifted, decvars>>

\* What the dispatcher's `call rsi` enters.  The dispatcher is called as an
\* extern "C" fn(block_func: usize), which passes the entry point in RDI;
\* neither trampoline nor the dispatcher loads RSI.  RSI holds the entry
\* point when the compiler's code for trampoline has left its second
\* argument there, and some other value otherwise.
RsiValues == {"func", "other"}

\* runtime::trampoline(&mut ctx, BlockFunc::from_block(&bb)): the dispatcher
\* runs on the host's frame and calls what RSI holds
JitEnter ==
    /\ phase = "execute"
    /\ \E rsi \in RsiValues, f \in HostFrames :
          IF rsi = "func"
          THEN \E out \in {RunFrame(f, dispatcher, 1,
                                      [code |-> bb.code, state |-> jit.state,
                                       mem |-> jit.mmu])} :
                    /\ jit' = [jit EXCEPT !.state = out.m.state, !.mmu = out.m.mem]
                    /\ run' = [run EXCEPT !.res = out.m.host[RAX],
                                          !.entered = [kind |-> "block", code |-> bb.code],
                                          !.frame_in = f,
                                          !.frame_out = [out EXCEPT !.m = <<>>]]
                    /\ phase' = IF out.fault THEN "fatal" ELSE "returned"
          ELSE /\ run' = [run EXCEPT !.entered = [kind |-> "other", code |-> <<>>],
                                     !.frame_in = f]
               /\ phase' = "wild"
               /\ UNCHANGED jit
    /\ UNCHANGED <<bb, lifted, decvars>>

\* match RuntimeExitCode::from(res)
JitExit ==
    /\ phase = "returned"
    /\ phase' = IF run.res = <<0, 0>> THEN "top"
                ELSE IF run.res = <<0, 1>> THEN "halt" ELSE "fatal"
    /\ bb' = NoBlock
    /\ run' = [run EXCEPT !.entered = NotEntered, !.frame_in = NoFrame,
                          !.frame_out = NoFrame]
    /\ UNCHANGED <<jit, lifted, decvars>>

JitNext ==
    \/ JitMiss \/ PruneStep \/ JitRecompile \/ JitInsert \/ JitHit
    \/ JitEnter \/ JitExit

SpecJit == JitInit /\ [][JitNext]_vars

(***************************************************************************)
(* Properties of the block pipeline                                        *)
(***************************************************************************)
Live == phase # "off"

\* the definition sites of a block: <<position, field>> with a variable bound
DefSites(data) ==
    {s \in (1 .. Len(data)) \X {"lh", "lh_c", "lh_v"} :
        CASE s[2] = "lh"   -> data[s[1]].lh # NoVar
          [] s[2] = "lh_c" -> data[s[1]].lh_c # NoVar
          [] s[2] = "lh_v" -> data[s[1]].lh_v # NoVar}

DefAt(data, s) ==
    CASE s[2] = "lh"   -> data[s[1]].lh
      [] s[2] = "lh_c" -> data[s[1]].lh_c
      [] s[2] = "lh_v" -> data[s[1]].lh_v

InSeq(v, sq) == \E i \in 1 .. Len(sq) : sq[i] = v

LinkVars(l) ==
    CASE l.tag = "None" -> {}
      [] l.tag = "Branch" -> {l.a}
      [] OTHER -> {l.a, l.b}

\* v is used by an instruction after (1-based) position i, or by the terminator
UsedLater(b, v, i) ==
    \/ \E j \in (i + 1) .. Len(b.data) : InSeq(v, get_used_vars(b.data[j]))
    \/ v \in LinkVars(b.link)

UsedAnywhere(b, v) == UsedLater(b, v, 0)

\* C2: SSA.  In every block state reachable by block-builder calls, and in
\* every block lift returns, each variable id occurs at most once among the
\* lh / lh_c / lh_v fields of the block's instructions.
SSA ==
    Live =>
        \A s, t \in DefSites(bb.data) :
            s # t => DefAt(bb.data, s).id # DefAt(bb.data, t).id

\* lift has returned a block of MaxData instructions, one with flag outputs
SSAWitness ==
    /\ phase = "prune"
    /\ Len(bb.data) = MaxData
    /\ \E i \in 1 .. Len(bb.data) : bb.data[i].lh_c # NoVar /\ bb.data[i].lh_v # NoVar

\* every instruction of new is an instruction of old (flag outputs aside):
\* nothing was appended
NoAppend(old, new) ==
    /\ Len(new) <= Len(old)
    /\ \A i \in 1 .. Len(new) : \E j \in 1 .. Len(old) :
          /\ new[i].lh = old[j].lh
          /\ new[i].rh = old[j].rh
          /\ new[i].guest_op = old[j].guest_op

\* C3: terminator well-formedness.  link goes from None to Some only by a
\* builder call that appends nothing (terminate); once link is Some it never
\* changes and no instruction is appended; during the lift the data does not
\* change at all, any further append or terminate being fatal; and once lift
\* has returned link is Some.
TerminatorWellFormed ==
    [][ /\ (bb.link = NoLink /\ bb'.link # NoLink) =>
              (phase = "lift" /\ bb'.data = bb.data)
        /\ bb.link # NoLink =>
              (bb'.link = bb.link /\ NoAppend(bb.data, bb'.data))
        /\ (phase = "lift" /\ bb.link # NoLink) =>
              /\ bb'.data = bb.data
              /\ (bb' # bb => phase' = "fatal")
        /\ phase' \in {"prune", "pruned", "allocated"} => bb'.link # NoLink
      ]_vars

\* a builder call after terminate has hit the assertion
TerminatorWitness ==
    /\ phase = "fatal"
    /\ bb.link # NoLink
    /\ Len(bb.data) > 0
    /\ bb.fatal

\* C4 as stated: for every terminated block, every variable in the interval
\* map built by from_block has def <= last_use.
LivenessAsStated ==
    (Live /\ phase # "fatal" /\ bb.link # NoLink) =>
        LET m == from_block(bb).data
        IN  \A v \in DOMAIN m : m[v][1] <= m[v][2]

\* C4 amended: for every terminated block, from_block succeeds, every
\* variable that an instruction or the terminator uses has def <= last_use,
\* and a variable that nothing uses has last_use = 0 whatever its def.
LivenessAmended ==
    (Live /\ phase # "fatal" /\ bb.link # NoLink) =>
        LET r == from_block(bb)
            m == r.data
        IN  /\ ~r.fatal
            /\ \A v \in DOMAIN m :
                  IF UsedAnywhere(bb, v) THEN m[v][1] <= m[v][2] ELSE m[v][2] = 0

\* a terminated block with a used variable defined after position 0 and an
\* unused variable defined after position 0
LivenessWitness ==
    /\ phase = "prune"
    /\ LET m == from_block(bb).data
       IN  /\ \E v \in DOMAIN m : m[v][1] > 0 /\ m[v][2] > m[v][1]
           /\ \E v \in DOMAIN m : m[v][1] > 0 /\ m[v][2] = 0

\* the live intervals (def, last_use] of v and w share a position
Overlap(iv, iw, n) ==
    \E p \in 0 .. n : iv[1] < p /\ p <= iv[2] /\ iw[1] < p /\ p <= iw[2]

\* C5: allocator disjointness.  In the storage map allocate_registers returns
\* for a lifted and pruned block, two distinct variables bound to the same
\* Gpr(r) have disjoint live intervals (def, last_use].
AllocatorDisjoint ==
    phase = "allocated" =>
        \A v, w \in DOMAIN bb.storage :
            (v # w /\ bb.storage[v].tag = "Gpr" /\ bb.storage[w] = bb.storage[v]) =>
                ~Overlap(bb.intervals[v], bb.intervals[w], Len(bb.data))

\* two variables share a register
AllocatorWitness ==
    /\ phase = "allocated"
    /\ \E v, w \in DOMAIN bb.storage :
          v # w /\ bb.storage[v].tag = "Gpr" /\ bb.storage[w] = bb.storage[v]

\* C6: pruning idempotence.  Once prune_dead_vars has returned, running it
\* again returns at once and leaves the instruction sequence (lh, lh_c, lh_v
\* included), the link and the constant cache as they were.
PruneIdempotent ==
    [][ PruneAgain =>
          /\ phase' = "pruned"
          /\ bb'.data = bb.data
          /\ bb'.link = bb.link
          /\ bb'.lb.const_map = bb.lb.const_map
      ]_vars

\* prune_dead_vars has returned a block from which it removed variables
PruneIdempotentWitness ==
    /\ phase = "pruned"
    /\ bb.data # <<>>
    /\ Cardinality(DefSites(bb.data)) < bb.lb.cur_varid

\* C7: pruning post-condition.  When prune_dead_vars has returned, every
\* surviving instruction (a) has a primary result used by a later instruction
\* or by the terminator, or (b) binds an lh_c or lh_v that is used, or (c) has
\* no result at all.
PrunePost ==
    phase = "pruned" =>
        \A i \in 1 .. Len(bb.data) :
            LET inst == bb.data[i] IN
            \/ inst.lh # NoVar /\ UsedLater(bb, inst.lh, i)
            \/ inst.lh_c # NoVar /\ UsedLater(bb, inst.lh_c, i)
            \/ inst.lh_v # NoVar /\ UsedLater(bb, inst.lh_v, i)
            \/ /\ inst.lh = NoVar /\ inst.lh_c = NoVar /\ inst.lh_v = NoVar
               /\ inst.rh.tag \in {"WriteGuestReg", "WriteFlag", "Store32"}

\* a pruned block that keeps a flag output, a plain result and a write
PrunePostWitness ==
    /\ phase = "pruned"
    /\ \E i, j, k \in 1 .. Len(bb.data) :
          /\ bb.data[i].lh_c # NoVar
          /\ bb.data[j].lh # NoVar /\ bb.data[j].lh_c = NoVar
          /\ bb.data[k].lh = NoVar
    /\ Cardinality(DefSites(bb.data)) < bb.lb.cur_varid


(***************************************************************************)
(* Properties of the main loop                                             *)
(***************************************************************************)
\* C8: the translation cache has no eviction and its entries are immutable.
\* Over any run of the main loop the set of cached PCs only grows, the block
\* stored under a PC is never replaced or modified, and each guest PC is
\* lifted at most once and compiled at most once.
CacheGrowsOnly ==
    [][ /\ \A p \in DOMAIN jit.cache :
              p \in DOMAIN jit'.cache /\ jit'.cache[p] = jit.cache[p]
        /\ \A p \in DOMAIN lifted' : lifted'[p][1] <= 1 /\ lifted'[p][2] <= 1
      ]_vars

\* a cached block is entered again while the cache holds another block, and
\* the memory it was lifted from has changed since
CacheWitness ==
    /\ phase = "execute"
    /\ run.hit
    /\ Cardinality(DOMAIN jit.cache) >= 2
    /\ \E p \in DOMAIN jit.cache :
          InArena(p) /\ read32(jit.mmu, Offset(p)) # jit.cache[p].guest_ops[1]

\* the steps of one iteration, in the order of the loop body
LoopOrder ==
    {<<"top", "prune">>, <<"top", "fatal">>, <<"top", "execute">>,
     <<"prune", "prune">>, <<"prune", "pruned">>, <<"prune", "fatal">>,
     <<"pruned", "compiled">>, <<"pruned", "fatal">>,
     <<"compiled", "execute">>,
     <<"execute", "returned">>, <<"execute", "fatal">>,
     <<"returned", "top">>, <<"returned", "halt">>, <<"returned", "fatal">>}

\* C9 as stated: every block entered through the dispatcher is the cache
\* entry whose key is the guest PC read at the top of the iteration and whose
\* base_pc is that key; on a miss the steps happen in the order lift, prune,
\* allocate+emit, insert, execute; the cache is not mutated while a block
\* executes.
MainLoopAsStated ==
    [][ /\ phase = "execute" =>
              /\ run.pc = jit.state[PC_WORD]
              /\ run.pc \in DOMAIN jit.cache
              /\ jit.cache[run.pc].base_pc = run.pc
              /\ run'.entered = [kind |-> "block", code |-> jit.cache[run.pc].code]
              /\ jit'.cache = jit.cache
        /\ <<phase, phase'>> \in LoopOrder
      ]_vars

\* C10: block exit protocol.  Every translated block that returns does so
\* with RAX in {0, 1}, having stored the new guest PC, and for a
\* branch-and-link the new LR, into the guest register file.
BlockExitProtocol ==
    phase = "returned" =>
        /\ run.res \in {<<0, 0>>, <<0, 1>>}
        /\ jit.state[PC_WORD] = bb.link.a.val
        /\ bb.link.tag = "BranchAndLink" => jit.state[LR_WORD] = bb.link.b.val

\* a branch-and-link block has returned, and one with a body that used RAX
BlockExitWitness ==
    /\ phase = "returned"
    /\ bb.link.tag = "BranchAndLink"
    /\ jit.state[LR_WORD] # jit.state[PC_WORD]
    /\ \E v \in DOMAIN bb.storage : bb.storage[v] = Gpr(RAX)


\* the registers the dispatcher pushes and pops, and its stack adjustments
Pushed == [i \in DOMAIN SelectSeq(dispatcher, LAMBDA h : h.op = "push") |->
              SelectSeq(dispatcher, LAMBDA h : h.op = "push")[i].x]
Popped == [i \in DOMAIN SelectSeq(dispatcher, LAMBDA h : h.op = "pop") |->
              SelectSeq(dispatcher, LAMBDA h : h.op = "pop")[i].d]
Adjust(op) == [i \in DOMAIN SelectSeq(dispatcher, LAMBDA h : h.op = op) |->
                  SelectSeq(dispatcher, LAMBDA h : h.op = op)[i].off]

\* C11: when the dispatcher returns from a translated block, RBX, RBP, R12,
\* R13, R14, R15 and RSP hold the values they had on dispatcher entry; the
\* block's code writes only registers of the allocator pool; the pops are the
\* pushes in reverse order and the stack adjustment is balanced.
CalleeSavePreserved ==
    phase = "returned" =>
        /\ \A r \in {RBX, RBP, R12, R13, R14, R15} :
              run.frame_out.reg[r] = run.frame_in.reg[r]
        /\ run.frame_out.rsp = run.frame_in.rsp
        /\ run.frame_out.stack[run.frame_out.rsp] = RetAddr(1)
        /\ \A i \in DOMAIN bb.code : Writes(bb.code[i]) \subseteq HostRegs \cup {RSP}
        /\ \A i \in DOMAIN bb.code : RSP \in Writes(bb.code[i]) => bb.code[i].op = "ret"
        /\ Len(Popped) = Len(Pushed)
        /\ \A i \in DOMAIN Pushed : Popped[Len(Pushed) + 1 - i] = Pushed[i]
        /\ Adjust("sub_rsp") = Adjust("add_rsp")

\* a block that wrote registers of the pool has returned through the
\* dispatcher, which had changed R13, R14 and R15 for it
CalleeSaveWitness ==
    /\ phase = "returned"
    /\ \E i \in DOMAIN bb.code : Writes(bb.code[i]) \cap {RCX, RDX, RBX} # {}
    /\ run.frame_in.reg[R15] # register_ptr
    /\ run.frame_in = HostFrame(2)

\* C12 as stated: at the first instruction of a translated block RSP mod 16
\* is 8, the dispatcher having been entered with RSP mod 16 = 8.
BlockEntryAlignment ==
    phase = "returned" =>
        (run.frame_in.rsp % 16 = 8 => run.frame_out.blk_rsp % 16 = 8)


(***************************************************************************)
(* Properties of the allocator                                             *)
(***************************************************************************)
\* the locals of allocate_registers when its loop ended
FinalAlloc == bb.last

\* C13: every Gpr(r) that allocate_registers binds has r in {RAX, RCX, RDX,
\* RBX, R8, R9, R10, R11}, never R13, R14, R15, RBP or RSP; a constant is
\* bound to Const(value) and takes no register: the registers held by the
\* active variables and those left in the pool are always the eight of the
\* pool, and no active variable is a constant.
ReservedNeverAllocated ==
    phase \in {"alloc_out", "fatal"} =>
        /\ \A v \in DOMAIN FinalAlloc.storage :
              IF v.kind = "Constant"
              THEN FinalAlloc.storage[v] = Const(v.val)
              ELSE /\ FinalAlloc.storage[v].tag = "Gpr"
                   /\ FinalAlloc.storage[v].r \in {RAX, RCX, RDX, RBX, R8, R9, R10, R11}
                   /\ FinalAlloc.storage[v].r \notin {R13, R14, R15, RBP, RSP}
        /\ Len(FinalAlloc.pool) + Len(FinalAlloc.active) = 8
        /\ { FinalAlloc.pool[i] : i \in DOMAIN FinalAlloc.pool }
             \cup { FinalAlloc.active[i].reg : i \in DOMAIN FinalAlloc.active }
             = {RAX, RCX, RDX, RBX, R8, R9, R10, R11}
        /\ \A i \in DOMAIN FinalAlloc.active : FinalAlloc.active[i].var.kind # "Constant"
        /\ phase = "alloc_out" => bb.storage = FinalAlloc.storage

\* a storage map with constants and with registers up to R11 bound
ReservedWitness ==
    /\ phase = "alloc_out"
    /\ \E v \in DOMAIN bb.storage : bb.storage[v].tag = "Const"
    /\ \E v \in DOMAIN bb.storage : bb.storage[v] = Gpr(RBX)
    /\ \E v \in DOMAIN bb.storage : bb.storage[v] = Gpr(R10)

\* the non-constant variables visited before v whose last use is after the
\* definition of v
LiveAt(map, v) ==
    {w \in DOMAIN map : w.kind # "Constant" /\ VarLess(w, v) /\ map[w][2] > map[v][1]}

\* C14: allocate_registers is fatal exactly when some non-constant variable
\* is reached while eight earlier non-constant variables still have
\* last_use > its def; when it returns, the storage map binds every variable
\* of the interval map, and no register is bound to a variable while an
\* earlier holder of it is unexpired.
ExhaustionFatal ==
    phase \in {"alloc_out", "fatal"} =>
        /\ phase = "fatal" <=>
              \E v \in DOMAIN bb.intervals :
                  v.kind # "Constant" /\ Cardinality(LiveAt(bb.intervals, v)) >= 8
        /\ phase = "fatal" => bb.storage = <<>>
        /\ phase = "alloc_out" =>
              /\ DOMAIN bb.storage = DOMAIN bb.intervals
              /\ \A v, w \in DOMAIN bb.storage :
                    (/\ VarLess(w, v) /\ bb.storage[v].tag = "Gpr"
                     /\ bb.storage[w] = bb.storage[v])
                    => bb.intervals[w][2] <= bb.intervals[v][1]

\* the ninth variable is reached while the eight before it are live
ExhaustionWitness ==
    /\ phase = "fatal"
    /\ \E v \in DOMAIN bb.intervals :
          v.id = 8 /\ Cardinality(LiveAt(bb.intervals, v)) = 8

(***************************************************************************)
(* The lifting of one instruction: lift/dispatch.rs hands the fetched word *)
(* to the handler its LUT entry names; the handler appends to the block    *)
(* standing at the word's address.                                         *)
(***************************************************************************)
\* the condition fields tried: EQ, LT, AL and the unconditional space 0b1111
LiftConds == {0, 11, AL, 15}

\* bits 27..20 of the words tried: mov, movs (immediate and register), sub,
\* subs, cmp, ldr and str in every (P, U, W), b, bl, and the and
\* instruction, which has no handler
LiftMids ==
    {\H3a, \H3b, \H1a, \H1b, \H24, \H25, \H35,
     \H41, \H49, \H51, \H59, \H53, \H5b, \H4b,
     \H40, \H48, \H50, \H58, \H52, \H5a, \H4a,
     \Ha0, \Haf, \Ha7, \Ha8, \Hb0, \Hbf, \H00}

\* bits 19..16 and bits 15..12 of the words tried
LiftRegs == {0, 3, 15}

\* bits 11..0 of the words tried
LiftLows == {0, 4, \H00f, \H80f}

\* stmdb without and with write-back, and the register lists tried: empty,
\* r0, r1 and lr, pc alone, r0 and pc
StmMids == {\H90, \H92}
LiftLists == {0, \H0001, \H4002, \H8000, \H8001}

LiftOps ==
    { <<c * 4096 + mid * 16 + rn, rd * 4096 + low>> :
        <<c, mid, rn, rd, low>> \in
            LiftConds \X LiftMids \X LiftRegs \X LiftRegs \X LiftLows }
    \cup
    { <<c * 4096 + mid * 16 + rn, list>> :
        <<c, mid, rn, list>> \in LiftConds \X StmMids \X LiftRegs \X LiftLists }

\* the addresses the word is fetched from: the first and the last word of the
\* arena and one between
LiftPcs == {<<0, 0>>, <<0, \H1000>>, <<\H000f, \Hfffc>>}

LiftInit ==
    /\ opcd \in LiftOps
    /\ fn = "none"
    /\ dstate = "off"
    /\ \E pc \in LiftPcs : bb = BasicBlock_new(pc)
    /\ phase = "lift_in"
    /\ JitOff

\* one turn of the loop of BasicBlock::lift on a fresh block: guest_ops.push,
\* ArmInst::decode, ArmFn::from_inst and the handler
LiftOne ==
    /\ phase = "lift_in"
    /\ fn' = lookup(opcd)
    /\ bb' = CallHandler(lookup(opcd), [bb EXCEPT !.guest_ops = Append(@, opcd)], opcd)
    /\ phase' = IF bb'.fatal THEN "fatal" ELSE "lifted"
    /\ UNCHANGED <<opcd, dstate, jitvars>>

LiftNext == LiftOne

SpecLift == LiftInit /\ [][LiftNext]_vars

\* the operations lifted so far, as a set
RhsOf(b) == { b.data[i].rh : i \in 1 .. Len(b.data) }

\* the Const instructions of the block that bind the value val
ConstsOf(b, val) ==
    { i \in 1 .. Len(b.data) :
        b.data[i].rh.tag = "Const" /\ b.data[i].rh.c = Constant_new(32, val)
        /\ b.data[i].lh.kind = "Constant" /\ b.data[i].lh.val = val }

\* the opcode reads R15 as a source, a base or the data of a store
ReadsPc(f, op) ==
    CASE f = "mov_reg" -> bits_rm(op) = 15
      [] f \in {"sub_imm", "cmp_imm", "ldr_imm"} -> bits_rn(op) = 15
      [] f = "str_imm" -> bits_rn(op) = 15 \/ bits_rt(op) = 15
      [] f = "stmdb" -> bits_rn(op) = 15 \/ bits_register_list(op) \div 32768 = 1
      [] OTHER -> FALSE

\* the constant the read of R15 comes to: fetch + 8, which ldr's literal form
\* folds into the address
PcValue(f, b, op) ==
    IF f = "ldr_imm"
    THEN amode_lit(exec(b.base_pc), FromNat(bits_imm12(op)), bits_p(op), bits_u(op))
    ELSE exec(b.base_pc)

\* C15 as stated: a handler that reads R15 leaves a Constant of fetch + 8 in
\* the block and no ReadGuestReg(15)
PcReadsAreConstants ==
    (phase = "lifted" /\ ReadsPc(fn, opcd)) =>
        /\ ConstsOf(bb, PcValue(fn, bb, opcd)) # {}
        /\ \A o \in RhsOf(bb) : ~(o.tag = "ReadGuestReg" /\ o.reg = 15)

\* the handlers that assert the condition AL on their first line
AlOnly ==
    {"bl_imm", "mov_imm", "mov_reg", "sub_imm", "cmp_imm", "ldr_imm", "str_imm", "stmdb"}

\* C16: with a condition field other than AL every handler but b ends the
\* translation with a panic and no terminated block; b with a condition of
\* Cond other than AL terminates the block with BranchCond of that condition,
\* and with the field 0b1111, which Cond::from rejects, it panics as well
ConditionFieldRule ==
    (phase # "lift_in" /\ bits_cond(opcd) # AL) =>
        /\ fn \in AlOnly => (phase = "fatal" /\ bb.fatal /\ bb.link = NoLink)
        /\ (fn = "b" /\ CondValid(bits_cond(opcd))) =>
              /\ phase = "lifted"
              /\ bb.link.tag = "BranchCond"
              /\ bb.link.cond = bits_cond(opcd)
        /\ (fn = "b" /\ ~CondValid(bits_cond(opcd))) => phase = "fatal"
        /\ phase = "lifted" => fn = "b"

ConditionWitness ==
    /\ phase = "fatal"
    /\ fn = "bl_imm"
    /\ bits_cond(opcd) = 11
    /\ bb.guest_ops = <<opcd>>

\* n mod 2^32 as a pair of halves, for an integer n of either sign
Mod32(n) == <<(n \div 65536) % 65536, n % 65536>>

\* (a + 8 + 4 * sign_extend(imm24, 24)) mod 2^32
BranchTarget(a, op) ==
    Mod32(Offset(a) + 8
          + 4 * (IF bits_imm24(op) >= 8388608 THEN bits_imm24(op) - 16777216
                 ELSE bits_imm24(op)))

\* v is the variable of a Const instruction of the block binding the 32-bit
\* value val
IsConstOf(b, v, val) ==
    /\ v = [id |-> v.id, width |-> 32, kind |-> "Constant", val |-> val, reg |-> 0]
    /\ \E i \in ConstsOf(b, val) : b.data[i].lh = v

\* C17: b at fetch address a terminates the block with Branch(target) when
\* the condition is AL and with BranchCond(cond, target, a + 4) otherwise,
\* target being the constant a + 8 + 4 * sign_extend(imm24, 24) mod 2^32
BranchLifting ==
    (phase = "lifted" /\ fn = "b") =>
        /\ IsConstOf(bb, bb.link.a, BranchTarget(bb.base_pc, opcd))
        /\ IF bits_cond(opcd) = AL
           THEN bb.link = Branch(bb.link.a)
           ELSE /\ bb.link = BranchCond(bits_cond(opcd), bb.link.a, bb.link.b)
                /\ IsConstOf(bb, bb.link.b, Mod32(Offset(bb.base_pc) + 4))

\* a conditional branch backwards past address 0
BranchWitness ==
    /\ phase = "lifted"
    /\ fn = "b"
    /\ bb.link.tag = "BranchCond"
    /\ bits_imm24(opcd) >= 8388608
    /\ bb.link.a.val[1] >= 32768

(***************************************************************************)
(* Branches through the whole pipeline                                     *)
(***************************************************************************)
\* the block of the single word 0xEA000003 at 0x1000 has been translated and
\* executed
BranchScenario ==
    /\ phase = "returned"
    /\ run.pc = ScenarioEntry
    /\ bb.guest_ops = << <<\Hea00, \H0003>> >>

\* C18 as stated: after the scenario's block the guest PC is 0x1018 and the
\* exit code is NextBlock
BranchScenarioAsStated ==
    BranchScenario => (jit.state[PC_WORD] = <<0, \H1018>> /\ run.res = <<0, 0>>)

\* C18 amended: imm24 = 3 is an offset of 12 bytes, so the guest PC is
\* 0x1008 + 0xC = 0x1014; the exit code is NextBlock
BranchScenarioPc ==
    BranchScenario => (jit.state[PC_WORD] = <<0, \H1014>> /\ run.res = <<0, 0>>)

BranchScenarioWitness ==
    /\ BranchScenario
    /\ run.entered.kind = "block"
    /\ bb.link.tag = "Branch"
    /\ ~run.hit

\* C19: a block ending in bl (condition AL) at fetch address a is terminated
\* with BranchAndLink(target, new_lr), target the constant
\* a + 8 + 4 * sign_extend(imm24, 24) mod 2^32 and new_lr the constant a + 4;
\* when the block has executed, guest R14 = new_lr, guest PC = target and the
\* exit code is 0
BranchAndLinkLifting ==
    (phase \in {"prune", "pruned", "compiled", "execute", "returned"}
       /\ lookup(last_opcd(bb)) = "bl_imm") =>
        /\ bits_cond(last_opcd(bb)) = AL
        /\ bb.link = BranchAndLink(bb.link.a, bb.link.b)
        /\ bb.link.a = [id |-> bb.link.a.id, width |-> 32, kind |-> "Constant",
                        val |-> BranchTarget(bb.pc, last_opcd(bb)), reg |-> 0]
        /\ bb.link.b = [id |-> bb.link.b.id, width |-> 32, kind |-> "Constant",
                        val |-> Mod32(Offset(bb.pc) + 4), reg |-> 0]
        /\ phase = "returned" =>
              /\ jit.state[LR_WORD] = Mod32(Offset(bb.pc) + 4)
              /\ jit.state[PC_WORD] = BranchTarget(bb.pc, last_opcd(bb))
              /\ run.res = <<0, 0>>

\* a bl whose target lies below address 0 has executed
BranchAndLinkWitness ==
    /\ phase = "returned"
    /\ lookup(last_opcd(bb)) = "bl_imm"
    /\ run.entered.kind = "block"
    /\ jit.state[PC_WORD][1] >= 32768
    /\ jit.state[LR_WORD] = Mod32(Offset(bb.pc) + 4)

(***************************************************************************)
(* Register + immediate addressing of ldr_imm and str_imm                  *)
(***************************************************************************)
\* the memory accesses of the block
MemAccesses(b) == { o \in RhsOf(b) : o.tag \in {"Load32", "Store32"} }

\* the variables the block's loads define
LoadResults(b) == { b.data[i].lh : i \in { k \in 1 .. Len(b.data) : b.data[k].rh.tag = "Load32" } }

\* the writes of register rn other than that of a loaded value
Writebacks(b, rn) ==
    { o \in RhsOf(b) : o.tag = "WriteGuestReg" /\ o.reg = rn /\ o.x \notin LoadResults(b) }

\* the block reads Rn, computes tmp = rn + imm (U) or rn - imm, makes its one
\* memory access at rn (P = 0) or tmp (P = 1) and writes to Rn: tmp when
\* (P, W) is (0, 0) or (1, 1); when it is (1, 0), nothing if silent and the
\* value read from Rn otherwise
AmodeShape(b, f, op, silent) ==
    \E i, j \in 1 .. Len(b.data) :
        /\ b.data[i].rh = Op("ReadGuestReg", NoConst, bits_rn(op), "", NoVar, NoVar)
        /\ b.data[j].rh.tag = IF bits_u(op) THEN "Add32" ELSE "Sub32"
        /\ b.data[j].rh.x = b.data[i].lh
        /\ IsConstOf(b, b.data[j].rh.y, FromNat(bits_imm12(op)))
        /\ \E acc \in MemAccesses(b) :
              /\ MemAccesses(b) = {acc}
              /\ acc.tag = IF f = "ldr_imm" THEN "Load32" ELSE "Store32"
              /\ acc.x = IF bits_p(op) THEN b.data[j].lh ELSE b.data[i].lh
        /\ Writebacks(b, bits_rn(op)) =
              IF bits_p(op) /\ ~bits_w(op)
              THEN IF silent THEN {}
                   ELSE {Op("WriteGuestReg", NoConst, bits_rn(op), "", b.data[i].lh, NoVar)}
              ELSE {Op("WriteGuestReg", NoConst, bits_rn(op), "", b.data[j].lh, NoVar)}

\* ldr_imm or str_imm has lifted a word whose base is not the PC
AmodeLifted ==
    /\ phase = "lifted"
    /\ fn \in {"ldr_imm", "str_imm"}
    /\ bits_rn(opcd) # 15

\* C20 as stated: with (P=1, W=0) no WriteGuestReg for Rn is emitted
AddressingAsStated == AmodeLifted => AmodeShape(bb, fn, opcd, TRUE)

\* C20 amended: with (P=1, W=0) the value read from Rn is written back to Rn,
\* which leaves Rn as it was; (P=0, W=0) accesses memory at rn and (P=1, W=1)
\* at tmp, and both write tmp back to Rn
AddressingModes == AmodeLifted => AmodeShape(bb, fn, opcd, FALSE)

\* an offset store without write-back, and its write of Rn
AddressingWitness ==
    /\ AmodeLifted
    /\ fn = "str_imm"
    /\ bits_p(opcd) /\ ~bits_w(opcd) /\ ~bits_u(opcd)
    /\ bits_imm12(opcd) = 4
    /\ \E o \in Writebacks(bb, bits_rn(opcd)) : o.x.kind = "GuestReg"

(***************************************************************************)
(* Store multiple, decrement before                                        *)
(***************************************************************************)
\* the Store32 instructions of the block, in program order
Stores(b) == SelectSeq(b.data, LAMBDA inst : inst.rh.tag = "Store32")

\* the registers among R0..R14 the list names, and the k-th of them upwards
ListedRegs(list) == { r \in 0 .. 14 : (list \div Pow2(r)) % 2 = 1 }
NthListed(list, k) ==
    CHOOSE r \in ListedRegs(list) :
        Cardinality({ q \in ListedRegs(list) : q < r }) = k - 1

\* v is defined by an instruction of the block with the operation o
DefinedAs(b, v, o) == \E i \in 1 .. Len(b.data) : b.data[i].lh = v /\ b.data[i].rh = o

\* v is rn - 4 * n, n the number of bits set in the list
IsStmBase(b, v, op) ==
    \E i \in 1 .. Len(b.data) :
        /\ b.data[i].lh = v
        /\ b.data[i].rh.tag = "Sub32"
        /\ DefinedAs(b, b.data[i].rh.x,
                     Op("ReadGuestReg", NoConst, bits_rn(op), "", NoVar, NoVar))
        /\ IsConstOf(b, b.data[i].rh.y,
                     FromNat(4 * count_ones(bits_register_list(op))))

\* v is prev + 4
IsNextAddr(b, v, prev) ==
    \E i \in 1 .. Len(b.data) :
        /\ b.data[i].lh = v
        /\ b.data[i].rh.tag = "Add32"
        /\ b.data[i].rh.x = prev
        /\ IsConstOf(b, b.data[i].rh.y, <<0, 4>>)

\* addr is the address of the k-th store, given the address operands of the
\* stores before it
IsStmAddr(b, op, addr, k, prev) ==
    IF k = 1 THEN IsStmBase(b, addr, op) ELSE IsNextAddr(b, addr, prev)

\* the block of one stmdb: the listed registers among R0..R14 stored upwards
\* from rn - 4n at consecutive words, Rn written with rn - 4n exactly when W
\* is set, and one more store when bit 15 is set: of the constant exec PC at
\* the following address (pcdata), or of that address at the exec PC
StmShape(b, op, pcdata) ==
    LET list == bits_register_list(op)
        m == Cardinality(ListedRegs(list))
        st == Stores(b)
    IN  /\ Len(st) = m + (list \div 32768)
        /\ \A k \in 1 .. m :
              /\ DefinedAs(b, st[k].rh.y,
                           Op("ReadGuestReg", NoConst, NthListed(list, k), "", NoVar, NoVar))
              /\ IsStmAddr(b, op, st[k].rh.x, k, IF k = 1 THEN NoVar ELSE st[k - 1].rh.x)
        /\ { o \in RhsOf(b) : o.tag = "WriteGuestReg" } =
              IF bits_w(op)
              THEN { o \in RhsOf(b) : /\ o = Op("WriteGuestReg", NoConst, bits_rn(op), "", o.x, NoVar)
                                      /\ IsStmBase(b, o.x, op) }
              ELSE {}
        /\ bits_w(op) => \E o \in RhsOf(b) : o.tag = "WriteGuestReg"
        /\ list \div 32768 = 1 =>
              LET last == st[m + 1].rh
                  data == IF pcdata THEN last.y ELSE last.x
                  addr == IF pcdata THEN last.x ELSE last.y
              IN  /\ IsConstOf(b, data, exec(b.base_pc))
                  /\ IsStmAddr(b, op, addr, m + 1, IF m = 0 THEN NoVar ELSE st[m].rh.x)

StmLifted == phase = "lifted" /\ fn = "stmdb"

\* C21 as stated: the registers are stored upwards from rn - 4n, W writes
\* rn - 4n back, and bit 15 stores the exec PC at the address after the last
\* stored register
StmdbLifting == StmLifted => StmShape(bb, opcd, TRUE)

\* what stm_common builds when bit 15 is set: the address after the last
\* stored register is the data, and the exec PC the address
StmdbPcStoreSwapped == StmLifted => StmShape(bb, opcd, FALSE)

StmdbWitness ==
    /\ StmLifted
    /\ bits_register_list(opcd) = \H8001
    /\ bits_w(opcd)

(***************************************************************************)
(* The builder's constant operation                                        *)
(***************************************************************************)
\* the positions of the Const instructions of the block that bind c
ConstInsts(b, c) ==
    { i \in 1 .. Len(b.data) : b.data[i].rh.tag = "Const" /\ b.data[i].rh.c = c }

\* C22: while a block is built, every constant asked for so far has exactly
\* one Const instruction, whose lh is the variable the cache returns for it,
\* there is no other Const instruction, and two calls of constant with equal
\* arguments return the same variable, the second leaving the block as the
\* first left it.  Arguments name the same constant when the widths are
\* equal and the values agree on the low width bits.
ConstantDedup ==
    phase = "lift" =>
        /\ \A c \in DOMAIN bb.lb.const_map :
              /\ Cardinality(ConstInsts(bb, c)) = 1
              /\ \A i \in ConstInsts(bb, c) : bb.data[i].lh = bb.lb.const_map[c]
        /\ \A i \in 1 .. Len(bb.data) :
              bb.data[i].rh.tag = "Const" => bb.data[i].rh.c \in DOMAIN bb.lb.const_map
        /\ \A a \in ConstArgs :
              With(constant(bb, a[1], a[2]), LAMBDA first :
              With(constant(first.bb, a[1], a[2]), LAMBDA second :
              ~first.bb.fatal =>
                  /\ second.v = first.v
                  /\ second.bb = first.bb
                  /\ first.v = first.bb.lb.const_map[Constant_new(a[1], a[2])]))

\* two constants are cached, one of them asked for with the value 3 of width 1
ConstantDedupWitness ==
    /\ phase = "lift"
    /\ Cardinality(DOMAIN bb.lb.const_map) = 2
    /\ Constant_new(1, <<0, 3>>) \in DOMAIN bb.lb.const_map
    /\ Len(bb.data) = MaxData

\* C23 as stated: the trait declares constant(value, width); a call with those
\* two arguments returns a variable of width `width` whose value is `value`
\* masked to `width` bits.  The call's arguments are in the order of the
\* declaration: a[1] is `value`, a[2] is `width`.
ConstantAsDeclared ==
    phase = "lift" =>
        \A a \in ConstArgs :
            With(constant(bb, a[1], a[2]), LAMBDA r :
            ~r.bb.fatal =>
                /\ r.v.width = Offset(a[2])
                /\ r.v.val = MaskTo(Offset(a[2]), FromNat(a[1])))


(***************************************************************************)
(* The load-literal scenario                                               *)
(***************************************************************************)
\* the run of the scenario: the arena is the one the host loaded (the block
\* stores nothing) and the guest started at address 0
InLiteralScenario == jit # <<>> /\ jit.mmu = LiteralMmu

\* C24 as stated: in the load-literal scenario the block at PC 0 is
\* translated and executed (no fatal error stops the run), and when the block
\* has returned R0 holds 0xDEADBEEF, the big-endian word at exec_pc + 0xf8.
LoadLiteralScenario ==
    InLiteralScenario =>
        /\ phase # "fatal"
        /\ phase = "returned" => jit.state[0] = read32(jit.mmu, Offset(LiteralAddr))

\* the scenario's block is lifted as the handler says (a load from the
\* constant exec_pc + 0xf8 = 0x100 into R0), and recompile panics on it: the
\* emitter lowers Load32 only from an address held in a host register
LoadLiteralPanics ==
    InLiteralScenario /\ phase = "pruned" =>
        /\ \E i \in DOMAIN bb.data :
              /\ bb.data[i].rh.tag = "Load32"
              /\ IsConstOf(bb, bb.data[i].rh.x, LiteralAddr)
              /\ \E j \in DOMAIN bb.data :
                    /\ bb.data[j].rh.tag = "WriteGuestReg"
                    /\ bb.data[j].rh.reg = 0
                    /\ bb.data[j].rh.x = bb.data[i].lh
        /\ recompile(bb).fatal


(***************************************************************************)
(* The guest-state layout the generated code relies on                     *)
(***************************************************************************)
\* the accesses of the guest state in a code buffer, in order: the kind
\* ("r" a 4-byte load, "w" a 4-byte store) and the byte offset from R15
CtxOps == {"mov_r_ctx", "mov_ctx_r", "mov_ctx_i"}
IsCtxOp(h) == h.op \in CtxOps
CtxAccesses(code) ==
    LET acc == SelectSeq(code, IsCtxOp)
    IN  [i \in DOMAIN acc |-> <<IF acc[i].op = "mov_r_ctx" THEN "r" ELSE "w", acc[i].off>>]

\* the accesses the IR of a block asks for: register i is at offset 4 * i;
\* Branch stores PC (0x3c), BranchAndLink stores R14 (0x38) and then PC
IsGuestRegOp(inst) == inst.rh.tag \in {"ReadGuestReg", "WriteGuestReg"}
GuestAccesses(b) ==
    LET ops == SelectSeq(b.data, IsGuestRegOp)
    IN  [i \in DOMAIN ops |->
            <<IF ops[i].rh.tag = "ReadGuestReg" THEN "r" ELSE "w", 4 * ops[i].rh.reg>>]
        \o (IF b.link.tag = "BranchAndLink" THEN <<<<"w", 4 * LR_WORD>>>> ELSE <<>>)
        \o <<<<"w", 4 * PC_WORD>>>>

\* the words of the guest state a block's IR writes
GuestWrites(b) ==
    {b.data[i].rh.reg : i \in {j \in DOMAIN b.data : b.data[j].rh.tag = "WriteGuestReg"}}
        \cup (IF b.link.tag = "BranchAndLink" THEN {LR_WORD} ELSE {})
        \cup {PC_WORD}

\* C25: the code generated for a block accesses the guest state exactly as
\* its IR says, register i at offset 4 * i, R14 at 0x38 and PC at 0x3c; and
\* a run of the block changes no word of the guest state (R0..R14, PC, CPSR)
\* but those its WriteGuestReg instructions and its terminator write, the
\* terminator leaving its targets in PC and (BranchAndLink) R14.
GuestStateFrame ==
    [][phase = "execute" /\ phase' = "returned" =>
          /\ CtxAccesses(bb.code) = GuestAccesses(bb)
          /\ \A i \in DOMAIN bb.data :
                IsGuestRegOp(bb.data[i]) => bb.data[i].rh.reg \in 0 .. LR_WORD
          /\ \A w \in 0 .. CPSR_WORD :
                w \notin GuestWrites(bb) => jit'.state[w] = jit.state[w]
          /\ jit'.state[PC_WORD] = bb.link.a.val
          /\ bb.link.tag = "BranchAndLink" => jit'.state[LR_WORD] = bb.link.b.val]_vars

\* a block that read R0, wrote R1 from a host register and ended in
\* BranchAndLink has returned: R1 = R0 - 1, R14 and PC are the terminator's
GuestStateFrameWitness ==
    /\ phase = "returned"
    /\ bb.link.tag = "BranchAndLink"
    /\ \E i, j \in DOMAIN bb.data :
          /\ bb.data[i].rh.tag = "ReadGuestReg" /\ bb.data[i].rh.reg = 0
          /\ bb.data[j].rh.tag = "WriteGuestReg" /\ bb.data[j].rh.reg = 1
    /\ jit.state[1] = wrapping_sub(jit.state[0], <<0, 1>>)
    /\ jit.state[LR_WORD] = bb.link.b.val
    /\ jit.state[PC_WORD] = bb.link.a.val
    /\ jit.state[CPSR_WORD] = Zero32


(***************************************************************************)
(* Termination of prune_dead_vars.  The loop of prune_dead_vars has no     *)
(* exit but the break on an empty dead list, and nothing interrupts it:    *)
(* once entered, its next iteration is always taken.                       *)
(***************************************************************************)
\* the builder calls of a handler that binds flags (read_reg, constant,
\* sub32f or lsl32f, write_flag), the terminator, and the loop
PruneNext ==
    \/ CallConstant \/ CallReadReg \/ CallWriteFlag \/ CallSub32f \/ CallLsl32f
    \/ CallTerminate \/ LiftReturns \/ PruneStep

SpecPrune == BlockInit /\ [][PruneNext]_vars /\ WF_vars(PruneStep)

\* C27 as stated: once prune_dead_vars runs on a terminated block built
\* through the builder operations, its loop reaches an iteration with an
\* empty dead list and returns.
PruningTerminates == (phase = "prune") ~> (phase = "pruned")

\* what an iteration that does not return takes away from the block: an
\* instruction, or a carry / overflow binding
PruneMeasure(b) ==
    Len(b.data)
        + Cardinality({s \in DefSites(b.data) : s[2] # "lh"})

\* every iteration either returns or leaves a smaller block
PrunePassProgress ==
    phase = "prune" =>
        With(PrunePass(bb), LAMBDA r :
            r.done \/ r.bb.fatal \/ PruneMeasure(r.bb) < PruneMeasure(bb))

\* the blocks the loop never leaves: the dead list holds only primary
\* results of instructions that are kept for a carry or overflow binding in
\* use, so the iteration changes nothing and the next one is the same
PruneStuck(b) ==
    With(PrunePass(b), LAMBDA r :
        /\ ~r.done /\ ~r.bb.fatal
        /\ r.bb.data = b.data /\ r.bb.lb = b.lb)

\* the loop fails to return only on the blocks of PruneStuck, and those hold
\* an unused primary result next to a used carry or overflow output
PruneStuckOnlyOnFlags ==
    phase = "prune" =>
        With(PrunePass(bb), LAMBDA r :
            ~r.done /\ ~r.bb.fatal /\ PruneMeasure(r.bb) >= PruneMeasure(bb) =>
                /\ PruneStuck(bb)
                /\ \E i \in DOMAIN bb.data :
                      /\ bb.data[i].lh \in get_dead_vars(r.bb.intervals)
                      /\ bb.data[i].lh_c # NoVar \/ bb.data[i].lh_v # NoVar)


(***************************************************************************)
(* Definition before use                                                   *)
(***************************************************************************)
\* v is bound (as lh, lh_c or lh_v) by an instruction of b before position p
DefinedBefore(b, v, p) ==
    \E s \in DefSites(b.data) : s[1] < p /\ DefAt(b.data, s) = v

\* the variables the instruction at position p reads
UsedAt(b, p) ==
    {get_used_vars(b.data[p])[k] : k \in DOMAIN get_used_vars(b.data[p])}

\* C26: in every block the builder has made, and after every iteration of
\* prune_dead_vars, each variable an instruction reads is bound by an
\* earlier instruction and each variable of the terminator is bound by some
\* instruction, so from_block finds every variable it looks up.
DefinedBeforeUse ==
    phase \in {"lift", "prune", "pruned", "allocated"} =>
        /\ \A p \in DOMAIN bb.data : \A v \in UsedAt(bb, p) : DefinedBefore(bb, v, p)
        /\ bb.link # NoLink =>
              /\ \A v \in LinkVars(bb.link) : DefinedBefore(bb, v, Len(bb.data) + 1)
              /\ ~from_block(bb).fatal

\* an iteration of the loop has removed an instruction, and what is left
\* still reads a variable
DefinedBeforeUseWitness ==
    /\ phase = "prune"
    /\ bb.intervals # <<>>
    /\ Len(bb.data) = MaxData - 1
    /\ bb.lb.cur_varid > MaxData - 1
    /\ \E p \in DOMAIN bb.data : UsedAt(bb, p) # {}


(***************************************************************************)
(* Variable ids and definition positions                                   *)
(***************************************************************************)
\* C30: of two variables a block binds, the one with the smaller id is bound
\* at the same or an earlier position, while the block is built and after
\* every pass of prune_dead_vars; and the interval map, which the allocator
\* walks in the order of the variables, is in non-decreasing order of
\* definition position.
IdOrderIsDefOrder ==
    phase \in {"lift", "prune", "pruned", "allocated"} =>
        /\ \A s, t \in DefSites(bb.data) :
              DefAt(bb.data, s).id < DefAt(bb.data, t).id => s[1] <= t[1]
        /\ \A a, b \in DOMAIN bb.intervals :
              VarLess(a, b) => bb.intervals[a][1] <= bb.intervals[b][1]

\* a pruned block of two instructions that binds three variables, ids with a
\* gap left by a removed instruction, and its interval map
IdOrderWitness ==
    /\ phase = "pruned"
    /\ Len(bb.data) = MaxData - 1
    /\ Cardinality(DOMAIN bb.intervals) >= MaxData
    /\ \E s, t \in DefSites(bb.data) :
          /\ s[1] < t[1]
          /\ DefAt(bb.data, t).id > DefAt(bb.data, s).id + 1
          /\ \A u \in DefSites(bb.data) :
                ~(DefAt(bb.data, s).id < DefAt(bb.data, u).id
                    /\ DefAt(bb.data, u).id < DefAt(bb.data, t).id)


(***************************************************************************)
(* The exit code of translated blocks                                      *)
(***************************************************************************)
\* the code of a block leaves through its last two instructions, mov rax, 0
\* and ret, and holds no other ret
ReturnsNextBlock(code) ==
    /\ Len(code) >= 2
    /\ code[Len(code) - 1] = H("mov_rax_i", 0, 0, 0, Zero32)
    /\ \A i \in DOMAIN code : code[i].op = "ret" <=> i = Len(code)

\* C28: every block recompile has emitted returns through mov rax, 0; ret,
\* the exit code a block hands back is 0 (NextBlock), Jit::run goes from a
\* returned block to the top of its loop, and never leaves the loop through
\* the Halt branch.
NeverHalts ==
    /\ [](/\ phase # "halt"
          /\ phase \in {"compiled", "execute", "returned"} => ReturnsNextBlock(bb.code)
          /\ \A pc \in DOMAIN jit.cache : ReturnsNextBlock(jit.cache[pc].code)
          /\ phase = "returned" => run.res = Zero32)
    /\ [][phase = "returned" => phase' = "top"]_vars

\* the loop has gone on after a block returned: a second block has been
\* translated, entered and has returned
NeverHaltsWitness ==
    /\ phase = "returned"
    /\ Cardinality(DOMAIN jit.cache) >= 2
    /\ run.res = Zero32
    /\ ~run.hit


(***************************************************************************)
(* block/lifter.rs: the loop of BasicBlock::lift, one iteration at a time. *)
(*   phase "fetch"   at the head of the loop                               *)
(*   phase "lifted"  the loop was left through break; lift returns bb      *)
(*   phase "fatal"   a panic                                               *)
(* jit holds the guest state and the arena lift is given.  The arena holds *)
(* up to MaxFetch words at its end, so that a run of instructions that do  *)
(* not end a block leads the fetch address out of the arena.               *)
(***************************************************************************)
MaxFetch == 3

\* mov r0, #1; b .; bl .; an unimplemented word; ldrne r0, [pc] (a failed
\* assertion)
FetchOps ==
    {<<\He3a0, \H0001>>, <<\Heaff, \Hfffe>>, <<\Hebff, \Hfffe>>, <<0, 0>>,
     <<\H159f, \H0000>>}

\* the host writes the words of prog at address base
RECURSIVE LoadAt(_, _, _, _)
LoadAt(mem, base, prog, i) ==
    IF i > Len(prog) THEN mem
    ELSE LoadAt(write_buf(mem, base + (i - 1) * 4, prog[i]), base, prog, i + 1)

\* start addresses: the first of the n words, the second, an address whose
\* word crosses the end of the arena, and the last word of the address space
FetchStarts(n) ==
    {Mod32(ArenaLen - 4 * n), Mod32(ArenaLen - 4 * n + 4), Mod32(ArenaLen - 2),
     <<\Hffff, \Hfffc>>}

FetchInit ==
    /\ \E n \in 0 .. MaxFetch : \E prog \in [1 .. n -> FetchOps] :
          \E pc \in FetchStarts(n) :
             jit = [Jit_new EXCEPT !.state[PC_WORD] = pc,
                                   !.mmu = LoadAt(<<>>, ArenaLen - 4 * n, prog, 1)]
    /\ bb = BasicBlock_new(jit.state[PC_WORD])
    /\ phase = "fetch"
    /\ run = <<>>
    /\ lifted = <<>>
    /\ DecoderOff

\* the body of the loop: fetch, guest_ops.push, the handler, break or
\* increment_pc
LiftIteration(blk, mem) ==
    IF ~InArena(read_fetch_pc(blk)) THEN Panic(blk)
    ELSE With(read32(mem, Offset(read_fetch_pc(blk))), LAMBDA word :
         With(CallHandler(lookup(word), [blk EXCEPT !.guest_ops = Append(@, word)], word),
              LAMBDA b2 :
         IF b2.fatal \/ b2.link # NoLink THEN b2 ELSE increment_pc(b2)))

LiftFetch ==
    /\ phase = "fetch"
    /\ bb' = LiftIteration(bb, jit.mmu)
    /\ phase' = IF bb'.fatal THEN "fatal"
                ELSE IF bb'.link # NoLink THEN "lifted" ELSE "fetch"
    /\ UNCHANGED <<jit, run, lifted, decvars>>

FetchNext == LiftFetch

\* the loop runs on: nothing but break or a panic ends it
SpecFetch == FetchInit /\ [][FetchNext]_vars /\ WF_vars(LiftFetch)

\* C29: lift ends.  It returns a terminated block, or it panics (a word
\* without a handler, a failed assertion, a fetch outside the arena).  While
\* it runs and when it returns, the i-th entry of guest_ops is the
\* big-endian word at base_pc + 4 * i and the fetch address is base_pc plus
\* four times the number of completed iterations: at the terminating
\* instruction when lift returns.  The result is the one lift computes.
LiftingEnds ==
    /\ <>(phase \in {"lifted", "fatal"})
    /\ [](/\ phase \in {"fetch", "lifted"} =>
                /\ bb.base_pc = jit.state[PC_WORD]
                /\ \A i \in DOMAIN bb.guest_ops :
                      /\ InArena(wrapping_add(bb.base_pc, Mod32(4 * (i - 1))))
                      /\ bb.guest_ops[i] =
                            read32(jit.mmu,
                                   Offset(wrapping_add(bb.base_pc, Mod32(4 * (i - 1)))))
          /\ phase = "fetch" =>
                /\ bb.link = NoLink
                /\ bb.pc = wrapping_add(bb.base_pc, Mod32(4 * Len(bb.guest_ops)))
          /\ phase = "lifted" =>
                /\ bb.link # NoLink
                /\ bb.guest_ops # <<>>
                /\ bb.pc = wrapping_add(bb.base_pc, Mod32(4 * (Len(bb.guest_ops) - 1)))
                /\ bb = lift(jit.state[PC_WORD], jit.mmu)
          /\ phase = "fatal" => lift(jit.state[PC_WORD], jit.mmu).fatal)

\* lift has returned a block of three guest instructions, ended by the last
\* word of the arena
LiftingEndsWitness ==
    /\ phase = "lifted"
    /\ Len(bb.guest_ops) = MaxFetch
    /\ Offset(bb.pc) = ArenaLen - 4
    /\ bb.link.tag = "BranchAndLink"

\* a run of instructions that end no block has led the fetch address out of
\* the arena: lift panics on the fetch
FetchLeavesArena ==
    /\ phase = "fatal"
    /\ Len(bb.guest_ops) = MaxFetch
    /\ ~InArena(read_fetch_pc(bb))

=============================================================================
